---- MODULE Spec2Model ----
(***************************************************************************)
(* Model of the ZenML model deployer (deployment reconciler) of            *)
(* src/zenml/integrations/seldon/model_deployers/seldon_model_deployer.py  *)
(* together with the remote backend it talks to.                           *)
(*                                                                         *)
(* The backend is the list of Seldon deployment records the client         *)
(* returns; it starts as any list of up to MaxInitial records.  A caller   *)
(* runs one SeldonModelDeployer operation against it: deploy_model is      *)
(* split at its remote calls (find, each stop, update or construction,     *)
(* start), find_model_server is one step.                                  *)
(***************************************************************************)
EXTENDS Integers, Sequences, FiniteSets, TLC

\* ------------------------------------------------------------------ bounds
\* number of deployment records that exist before the first call
MaxInitial == 2
\* parsable creation timestamps are datetime.min + 0 .. datetime.min + MaxStamp
MaxStamp == 2

\* ------------------------------------------------------------- data model
\* the callers of the deployer; Spec runs the first one only
Procs == {1, 2}

\* the default of the timeout arguments, in seconds
DEFAULT_SELDON_DEPLOYMENT_START_STOP_TIMEOUT == 300

\* the timeouts a caller passes: 0 (do not wait) or the default
Timeouts == {0, DEFAULT_SELDON_DEPLOYMENT_START_STOP_TIMEOUT}

\* the fields of a SeldonDeploymentConfig that become deployment labels
LabelFields == {"pipeline_name", "pipeline_step_name", "model_name", "model_uri"}

Config(p, s, m, u) ==
    [pipeline_name |-> p, pipeline_step_name |-> s, model_name |-> m, model_uri |-> u]

\* the config of "no service" and of a query without label values
EmptyConfig == Config("", "", "", "")

\* configs of the deployments that exist initially
InitialConfigs ==
    {Config("p1", "s1", "m1", "u1"), Config("p1", "s1", "m2", "u1")}

\* configs a caller deploys: new versions of the two models
DeployConfigs ==
    {Config("p1", "s1", "m1", "u2"), Config("p1", "s1", "m2", "u2")}

\* deployment.metadata.creationTimestamp: absent/empty ("none"), a string that
\* is not of the form %Y-%m-%dT%H:%M:%SZ ("bad"), or a well-formed string
\* ("ok") that denotes the instant datetime.min + t
Stamp(k, n) == [kind |-> k, t |-> n]
NoStamp == Stamp("none", 0)
BadStamp == Stamp("bad", 0)
Stamps == {NoStamp, BadStamp} \cup {Stamp("ok", n) : n \in 0..MaxStamp}

\* datetime.min, as an offset from itself
DatetimeMin == 0

\* service states
ACTIVE == "ACTIVE"
STARTING == "STARTING"
ERROR == "ERROR"
INACTIVE == "INACTIVE"

\* a deployment record of the backend
Deployment(id, c, ts, st) ==
    [uuid |-> id, config |-> c, creationTimestamp |-> ts, state |-> st]

\* service = None
None == Deployment(0, EmptyConfig, NoStamp, INACTIVE)

\* exceptions that are RuntimeError or a subclass of it
RuntimeErrors == {"RuntimeError", "Timeout", "OperationalFailure"}

\* what a call has produced so far
NoResult == [kind |-> "none", error |-> "", value |-> <<>>]
Returned(v) == [kind |-> "return", error |-> "", value |-> v]
Raised(e) == [kind |-> "raise", error |-> e, value |-> <<>>]

\* the arguments of the call in progress
NoCall == [op |-> "none", config |-> EmptyConfig, replace |-> FALSE, timeout |-> 0,
           running |-> FALSE, service_uuid |-> 0, force |-> FALSE]

VARIABLES
    deployments,          \* the backend: the records the client lists, in its order
    nextUuid,             \* the next fresh service identity
    pc,                   \* per caller: position in its operation
    call,                 \* per caller: operation and arguments
    equivalent_services,  \* per caller: deploy_model's equivalent_services
    idx,                  \* per caller: position of the for loop of deploy_model
    service,              \* per caller: deploy_model's service
    trace,                \* per caller: calls made by the operation, in order
    known,                \* per caller: identities in the backend when the call began
    result,               \* per caller: return value or exception
    client,               \* SeldonClient objects the deployer has constructed
    \* one service under the service contract
    srv,                  \* the service: identity, config, Endpoint
    resource,             \* what is behind it: state and diagnostic message
    status,               \* its ServiceStatus: what check_status() last gave
    srv_pc,               \* position in the operation on the service
    srv_call,             \* that operation and its arguments
    elapsed,              \* polling intervals slept in the current poll loop
    srv_trace,            \* steps of the operation so far, in order
    srv_result,           \* its return value or exception
    nops,                 \* operations made on the service
    absent,               \* the resource was created and is not to be seen yet
    \* one local daemon service and the machine it runs on
    daemon_config,        \* its LocalDaemonServiceConfig
    lstatus,              \* per caller: the LocalDaemonServiceStatus it holds
    dirs,                 \* the runtime directories that exist
    cfgfile,              \* per directory: the config file is written
    pidfile,              \* per directory: the process id in the PID file
    logfile,              \* per directory: the log file exists
    live,                 \* the daemon processes that are alive
    nextPid,              \* the process id the next daemon gets
    nextTmp,              \* the next directory of tempfile.mkdtemp
    lpc,                  \* per caller: position in its operation
    lcall,                \* per caller: operation and arguments
    pid,                  \* per caller: the local variable pid
    ltrace,               \* per caller: what the operation did, in order
    lresult,              \* per caller: return value or exception
    lops,                 \* operations made on the local service
    \* the stack component class registry
    component_classes,    \* per type and flavor: the class registered
    pending,              \* classes of integrations not activated yet, in order
    activations,          \* calls of activate_integrations made
    reg_call,             \* the last operation on the registry and its arguments
    reg_result,           \* its return value or exception
    reg_ops,              \* operations made on the registry
    \* the repository lookup and the directories it looks at
    repos,                \* the directories that hold a repository
    fr_call,              \* the arguments and environment of find_repository
    fr_path,              \* path_ of the helper call in progress
    fr_pc,                \* position in find_repository
    visited,              \* the directories the helper has checked, in order
    fr_result             \* return value or exception

deployerVars == <<deployments, nextUuid, pc, call, equivalent_services, idx,
                  service, trace, known, result, client>>

serviceVars == <<srv, resource, status, srv_pc, srv_call, elapsed, srv_trace,
                 srv_result, nops, absent>>

localVars == <<daemon_config, lstatus, dirs, cfgfile, pidfile, logfile, live,
               nextPid, nextTmp, lpc, lcall, pid, ltrace, lresult, lops>>

registryVars == <<component_classes, pending, activations, reg_call, reg_result,
                  reg_ops>>

repositoryVars == <<repos, fr_call, fr_path, fr_pc, visited, fr_result>>

toolVars == <<registryVars, repositoryVars>>

vars == <<deployerVars, serviceVars, localVars, toolVars>>

\* ----------------------------------------------------------- remote client
\* SeldonDeploymentConfig.get_seldon_deployment_labels and the label selector:
\* a record matches when it carries every non-empty label of the query
LabelsMatch(d, c, service_uuid) ==
    /\ \A f \in LabelFields : c[f] = "" \/ d.config[f] = c[f]
    /\ service_uuid = 0 \/ d.uuid = service_uuid

\* SeldonClient.find_deployments(labels)
find_deployments(deps, c, service_uuid) ==
    SelectSeq(deps, LAMBDA d : LabelsMatch(d, c, service_uuid))

Uuids(deps) == {deps[i].uuid : i \in 1..Len(deps)}

IndexOf(deps, id) == CHOOSE i \in 1..Len(deps) : deps[i].uuid = id

\* ------------------------------------------------------- find_model_server
\* "_client: Optional[SeldonClient] = None"
NoClient == 0

\* a deployer that constructs a client at every access
AlwaysNewClient(n) == n + 1

\* the seldon_client property: "if not self._client: self._client =
\* SeldonClient(...)"; n counts the clients constructed so far
seldon_client(n) == IF n = NoClient THEN n + 1 ELSE n

\* datetime.strptime(creationTimestamp, "%Y-%m-%dT%H:%M:%SZ") raises ValueError
\* on a string of another form
StrptimeRaises(ts) == ts.kind = "bad"

\* the datetime a well-formed timestamp denotes
strptime(ts) == DatetimeMin + ts.t

\* a sort key that puts a missing timestamp behind every instant (datetime.max)
SortKeyMissingLatest(d) ==
    IF d.creationTimestamp.kind # "none" THEN strptime(d.creationTimestamp)
    ELSE DatetimeMin + MaxStamp + 1

\* the sort key of a deployment: its parsed timestamp, datetime.min when the
\* timestamp is empty or absent
SortKey(d) ==
    IF d.creationTimestamp.kind # "none" THEN strptime(d.creationTimestamp)
    ELSE DatetimeMin

\* the sort without reverse=True
SortAscending == FALSE

\* the reverse argument of deployments.sort
SortReverse == TRUE

\* list.sort is stable, also with reverse=True: an element goes behind every
\* element that may stay in front of it
InsertSorted(s, d) ==
    LET stays(x) == IF SortReverse THEN SortKey(x) >= SortKey(d)
                    ELSE SortKey(x) <= SortKey(d)
        k == Cardinality({i \in 1..Len(s) : stays(s[i])})
    IN  SubSeq(s, 1, k) \o <<d>> \o SubSeq(s, k + 1, Len(s))

RECURSIVE SortDeployments(_)
SortDeployments(s) ==
    IF s = <<>> THEN <<>>
    ELSE InsertSorted(SortDeployments(SubSeq(s, 1, Len(s) - 1)), s[Len(s)])

\* SeldonDeploymentService.create_from_deployment: the service object carries
\* the identity and config stored in the record's labels and annotations
create_from_deployment(d) ==
    Deployment(d.uuid, d.config, d.creationTimestamp, d.state)

\* BaseService.is_running
is_running(s) == s.state = ACTIVE

\* a filter that lets every service through
SkipsNothing(running, s) == FALSE

\* "if running and not service.is_running: continue"
SkipsService(running, s) == running /\ ~is_running(s)

\* the sort computes the key of every listed deployment first
FindRaises(deps, c, service_uuid) ==
    LET found == find_deployments(deps, c, service_uuid)
    IN  \E i \in 1..Len(found) : StrptimeRaises(found[i].creationTimestamp)

\* the list find_model_server returns when it does not raise
find_model_server(deps, running, c, service_uuid) ==
    LET sorted == SortDeployments(find_deployments(deps, c, service_uuid))
        services == [i \in 1..Len(sorted) |-> create_from_deployment(sorted[i])]
    IN  SelectSeq(services, LAMBDA s : ~SkipsService(running, s))

\* the equivalence subset of a config: deploy_model passes pipeline_name,
\* pipeline_step_name and model_name to find_model_server, not the model URI
EquivalenceQuery(c) == Config(c.pipeline_name, c.pipeline_step_name, c.model_name, "")

\* ---------------------------------------------------------- service object
\* an update that builds a new service around the config
ServiceRecreate(s, c) == [s EXCEPT !.config = c, !.uuid = s.uuid + 1]

\* BaseService.update(config): the config is replaced in place, the identity
\* is kept; the remote resource, when it exists, is patched
ServiceUpdate(s, c) == [s EXCEPT !.config = c]

PatchDeployment(deps, id, c) ==
    [i \in 1..Len(deps) |-> IF deps[i].uuid = id THEN [deps[i] EXCEPT !.config = c]
                            ELSE deps[i]]

\* deprovision: the remote resource of the service is deleted
RemoveDeployment(deps, id) == SelectSeq(deps, LAMBDA d : d.uuid # id)

\* the state check_status reports for a service identity
StateOf(deps, id) ==
    IF id \in Uuids(deps) THEN deps[IndexOf(deps, id)].state ELSE INACTIVE

\* provision: create the remote resource of the service or bring the existing
\* one to the service's config; st is the state the resource is left in
Provision(deps, s, ts, st) ==
    IF s.uuid \in Uuids(deps)
    THEN [i \in 1..Len(deps) |->
            IF deps[i].uuid = s.uuid
            THEN [deps[i] EXCEPT !.config = s.config, !.state = st]
            ELSE deps[i]]
    ELSE Append(deps, Deployment(s.uuid, s.config, ts, st))

\* outcomes of BaseService.stop(): nothing to do when already INACTIVE, else
\* deprovision succeeds or fails with a RuntimeError or with a client error
StopOutcomes(deps, s) ==
    IF StateOf(deps, s.uuid) = INACTIVE THEN {"noop"}
    ELSE {"ok", "RuntimeError", "SeldonClientError"}

\* outcomes of BaseService.start(timeout): immediate return when ACTIVE; else
\* provision (which may fail in the client) and, for timeout > 0, the poll
StartOutcomes(deps, s, timeout) ==
    IF StateOf(deps, s.uuid) = ACTIVE THEN {"noop"}
    ELSE IF timeout = 0 THEN {"provisioned", "SeldonClientError"}
    ELSE {"active", "Timeout", "OperationalFailure", "SeldonClientError"}

\* an event of the trace of a call
Event(o, id, t, out) ==
    [op |-> o, uuid |-> id, timeout |-> t, force |-> FALSE, outcome |-> out]

\* the event of a stop(timeout, force) call
StopEvent(id, t, f, out) == [Event("stop", id, t, out) EXCEPT !.force = f]

\* ------------------------------------------------------------ deploy_model
\* a deploy that looks for equivalent deployments whatever replace is
AlwaysFindsEquivalent(replace) == TRUE

\* a deploy that never looks for equivalent deployments
NeverFindsEquivalent(replace) == FALSE

\* "if replace is True"
FindsEquivalent(replace) == replace = TRUE

\* a loop that keeps the service it saw last
KeepLastService(svc, equivalent_service) == equivalent_service

\* the first service of the loop is kept ("keep the most recently created
\* service"), later ones leave the variable alone
KeepService(svc, equivalent_service) ==
    IF svc = None THEN equivalent_service ELSE svc

\* the object the loop body calls stop() on: "service.stop()"
StopTarget(svc, equivalent_service) == svc

\* "except RuntimeError: pass"
Caught(e) == e \in RuntimeErrors

\* a deploy that never takes the update branch
NeverUpdatesInPlace(svc) == FALSE

\* "if service:"
UpdatesInPlace(svc) == svc # None

\* a start that drops the caller's timeout
StartWithoutWaiting(timeout) == 0

\* "service.start(timeout=timeout)"
StartTimeout(timeout) == timeout

\* where the for loop continues after element i
AfterElement(es, i) == IF i >= Len(es) THEN "apply" ELSE "loop"

\* deploy_model up to and including the find_model_server call
DeployModel(p, config, replace, timeout) ==
    /\ pc[p] = "idle"
    /\ call' = [call EXCEPT ![p] = [op |-> "deploy", config |-> config,
                                    replace |-> replace, timeout |-> timeout,
                                    running |-> FALSE, service_uuid |-> 0, force |-> FALSE]]
    /\ known' = [known EXCEPT ![p] = Uuids(deployments)]
    /\ idx' = [idx EXCEPT ![p] = 1]
    /\ IF FindsEquivalent(replace)
       THEN IF FindRaises(deployments, EquivalenceQuery(config), 0)
            THEN /\ trace' = [trace EXCEPT ![p] = <<Event("find", 0, 0, "ValueError")>>]
                 /\ result' = [result EXCEPT ![p] = Raised("ValueError")]
                 /\ pc' = [pc EXCEPT ![p] = "done"]
                 /\ UNCHANGED equivalent_services
            ELSE LET es == find_model_server(deployments, FALSE,
                                             EquivalenceQuery(config), 0)
                 IN  /\ trace' = [trace EXCEPT ![p] = <<Event("find", 0, 0, "ok")>>]
                     /\ equivalent_services' = [equivalent_services EXCEPT ![p] = es]
                     /\ pc' = [pc EXCEPT ![p] = AfterElement(es, 0)]
                     /\ UNCHANGED result
       ELSE /\ pc' = [pc EXCEPT ![p] = "apply"]
            /\ UNCHANGED <<trace, result, equivalent_services>>
    /\ client' = IF FindsEquivalent(replace) THEN seldon_client(client) ELSE client
    /\ UNCHANGED <<deployments, nextUuid, service>>
    /\ UNCHANGED <<serviceVars, localVars, toolVars>>

\* one iteration of "for equivalent_service in equivalent_services"
DeployLoop(p) ==
    /\ pc[p] = "loop"
    /\ LET es == equivalent_services[p]
           equivalent_service == es[idx[p]]
       IN  IF service[p] = None
           THEN /\ service' = [service EXCEPT ![p] =
                                  KeepService(service[p], equivalent_service)]
                /\ pc' = [pc EXCEPT ![p] = AfterElement(es, idx[p])]
                /\ idx' = [idx EXCEPT ![p] = idx[p] + 1]
                /\ UNCHANGED <<deployments, trace, result>>
           ELSE LET target == StopTarget(service[p], equivalent_service)
                IN  \E out \in StopOutcomes(deployments, target) :
                      /\ trace' = [trace EXCEPT ![p] =
                                      Append(@, Event("stop", target.uuid, 0, out))]
                      /\ deployments' = IF out = "ok"
                                        THEN RemoveDeployment(deployments, target.uuid)
                                        ELSE deployments
                      /\ service' = [service EXCEPT ![p] =
                                        KeepService(service[p], equivalent_service)]
                      /\ IF out \in {"ok", "noop"} \/ Caught(out)
                         THEN /\ pc' = [pc EXCEPT ![p] = AfterElement(es, idx[p])]
                              /\ idx' = [idx EXCEPT ![p] = idx[p] + 1]
                              /\ UNCHANGED result
                         ELSE /\ pc' = [pc EXCEPT ![p] = "done"]
                              /\ result' = [result EXCEPT ![p] = Raised(out)]
                              /\ UNCHANGED idx
    /\ UNCHANGED <<nextUuid, call, equivalent_services, known, client>>
    /\ UNCHANGED <<serviceVars, localVars, toolVars>>

\* "if service: service.update(config) else: service = SeldonDeploymentService(config)"
DeployApply(p) ==
    /\ pc[p] = "apply"
    /\ IF UpdatesInPlace(service[p])
       THEN /\ service' = [service EXCEPT ![p] = ServiceUpdate(@, call[p].config)]
            /\ deployments' = PatchDeployment(deployments, service[p].uuid,
                                              call[p].config)
            /\ trace' = [trace EXCEPT ![p] =
                            Append(@, Event("update", service[p].uuid, 0, "ok"))]
            /\ UNCHANGED nextUuid
       ELSE /\ service' = [service EXCEPT ![p] =
                              Deployment(nextUuid, call[p].config, NoStamp, INACTIVE)]
            /\ nextUuid' = nextUuid + 1
            /\ trace' = [trace EXCEPT ![p] =
                            Append(@, Event("new", nextUuid, 0, "ok"))]
            /\ UNCHANGED deployments
    /\ pc' = [pc EXCEPT ![p] = "start"]
    /\ UNCHANGED <<call, equivalent_services, idx, known, result, client>>
    /\ UNCHANGED <<serviceVars, localVars, toolVars>>

\* a deploy that returns its service whatever start did
SwallowsStartFailure(out) == FALSE

\* "service.start(timeout=timeout)" stands outside any try block: what start
\* raises leaves deploy_model, and "return service" is not reached
StartRaises(out) == out \notin {"noop", "provisioned", "active"}

\* "service.start(timeout=timeout); return service"; a resource created now is
\* stamped with the current time, the latest instant there is
DeployStart(p) ==
    /\ pc[p] = "start"
    /\ LET timeout == StartTimeout(call[p].timeout)
           now == Stamp("ok", MaxStamp)
       IN  \E out \in StartOutcomes(deployments, service[p], timeout) :
             /\ trace' = [trace EXCEPT ![p] =
                             Append(@, Event("start", service[p].uuid, timeout, out))]
             /\ deployments' =
                  CASE out = "provisioned" ->
                         Provision(deployments, service[p], now, STARTING)
                    [] out = "active" ->
                         Provision(deployments, service[p], now, ACTIVE)
                    [] out = "Timeout" ->
                         Provision(deployments, service[p], now, STARTING)
                    [] out = "OperationalFailure" ->
                         Provision(deployments, service[p], now, ERROR)
                    [] OTHER -> deployments
             /\ result' = [result EXCEPT ![p] =
                             IF StartRaises(out)
                             THEN Raised(out) ELSE Returned(<<service[p]>>)]
    /\ pc' = [pc EXCEPT ![p] = "done"]
    /\ UNCHANGED <<nextUuid, call, equivalent_services, idx, service, known, client>>
    /\ UNCHANGED <<serviceVars, localVars, toolVars>>

\* ------------------------------------------------------- find_model_server
\* label queries and identities a caller searches for
FindQueries ==
    {EmptyConfig, Config("", "", "m1", ""), Config("p1", "s1", "m1", ""),
     Config("p2", "", "", "")}
FindUuids == {0, 1}

\* a caller's find_model_server call
FindModelServer(p, running, c, service_uuid) ==
    /\ pc[p] = "idle"
    /\ call' = [call EXCEPT ![p] = [op |-> "find", config |-> c, replace |-> FALSE,
                                    timeout |-> 0, running |-> running,
                                    service_uuid |-> service_uuid, force |-> FALSE]]
    /\ known' = [known EXCEPT ![p] = Uuids(deployments)]
    /\ IF FindRaises(deployments, c, service_uuid)
       THEN /\ trace' = [trace EXCEPT ![p] = <<Event("find", 0, 0, "ValueError")>>]
            /\ result' = [result EXCEPT ![p] = Raised("ValueError")]
       ELSE /\ trace' = [trace EXCEPT ![p] = <<Event("find", 0, 0, "ok")>>]
            /\ result' = [result EXCEPT ![p] =
                            Returned(find_model_server(deployments, running, c,
                                                       service_uuid))]
    /\ pc' = [pc EXCEPT ![p] = "done"]
    /\ client' = seldon_client(client)
    /\ UNCHANGED <<deployments, nextUuid, equivalent_services, idx, service>>
    /\ UNCHANGED <<serviceVars, localVars, toolVars>>

\* the backend changes between two calls of the deployer: another party
\* creates a deployment
BackendCreates(c, st) ==
    /\ pc[1] = "done" /\ pc[2] = "idle"
    /\ nextUuid <= MaxInitial + 1
    /\ deployments' = Append(deployments, Deployment(nextUuid, c, NoStamp, st))
    /\ nextUuid' = nextUuid + 1
    /\ UNCHANGED <<pc, call, equivalent_services, idx, service, trace, known,
                   result, client>>
    /\ UNCHANGED <<serviceVars, localVars, toolVars>>

\* another party deletes a deployment
BackendDeletes(id) ==
    /\ pc[1] = "done" /\ pc[2] = "idle"
    /\ id \in Uuids(deployments)
    /\ deployments' = RemoveDeployment(deployments, id)
    /\ UNCHANGED <<nextUuid, pc, call, equivalent_services, idx, service, trace,
                   known, result, client>>
    /\ UNCHANGED <<serviceVars, localVars, toolVars>>

\* ----------------------------------------------------- delete_model_server
\* the identities a caller names: those of the initial records and one more
CallUuids == 1..(MaxInitial + 1)

\* a lookup without the identity label
DeleteAnyUuid(uuid) == 0

\* "find_model_server(service_uuid=uuid)": the identity label of the lookup
DeleteQueryUuid(uuid) == uuid

\* a lookup restricted to running services
DeleteLookupRunningOnly == TRUE

\* the lookup leaves running at its default, False
DeleteLookupRunning == FALSE

\* delete_model_server: look the identity up, stop the first service found
DeleteModelServer(p, uuid, timeout, force) ==
    /\ pc[p] = "idle"
    /\ call' = [call EXCEPT ![p] = [op |-> "delete", config |-> EmptyConfig,
                                    replace |-> FALSE, timeout |-> timeout,
                                    running |-> FALSE, service_uuid |-> uuid,
                                    force |-> force]]
    /\ known' = [known EXCEPT ![p] = Uuids(deployments)]
    /\ LET q == DeleteQueryUuid(uuid)
       IN  IF FindRaises(deployments, EmptyConfig, q)
           THEN /\ trace' = [trace EXCEPT ![p] = <<Event("find", 0, 0, "ValueError")>>]
                /\ result' = [result EXCEPT ![p] = Raised("ValueError")]
                /\ UNCHANGED deployments
           ELSE LET services == find_model_server(deployments, DeleteLookupRunning,
                                                  EmptyConfig, q)
                IN  IF Len(services) = 0
                    THEN /\ trace' = [trace EXCEPT ![p] = <<Event("find", 0, 0, "ok")>>]
                         /\ result' = [result EXCEPT ![p] = Returned(<<>>)]
                         /\ UNCHANGED deployments
                    ELSE \E out \in StopOutcomes(deployments, services[1]) :
                           /\ trace' = [trace EXCEPT ![p] =
                                          <<Event("find", 0, 0, "ok"),
                                            StopEvent(services[1].uuid, timeout,
                                                      force, out)>>]
                           /\ deployments' =
                                IF out = "ok"
                                THEN RemoveDeployment(deployments, services[1].uuid)
                                ELSE deployments
                           /\ result' = [result EXCEPT ![p] =
                                           IF out \in {"ok", "noop"}
                                           THEN Returned(<<>>) ELSE Raised(out)]
    /\ pc' = [pc EXCEPT ![p] = "done"]
    /\ client' = seldon_client(client)
    /\ UNCHANGED <<nextUuid, equivalent_services, idx, service>>
    /\ UNCHANGED <<serviceVars, localVars, toolVars>>

\* ------------------------------------ start_model_server, stop_model_server
\* an operation that does nothing and returns
ReturnsNone == Returned(<<>>)

\* "raise NotImplementedError(...)"
NotImplemented == Raised("NotImplementedError")

\* stop_model_server(uuid, timeout, force)
StopModelServer(p, uuid, timeout, force) ==
    /\ pc[p] = "idle"
    /\ call' = [call EXCEPT ![p] = [op |-> "stop", config |-> EmptyConfig,
                                    replace |-> FALSE, timeout |-> timeout,
                                    running |-> FALSE, service_uuid |-> uuid,
                                    force |-> force]]
    /\ known' = [known EXCEPT ![p] = Uuids(deployments)]
    /\ result' = [result EXCEPT ![p] = NotImplemented]
    /\ pc' = [pc EXCEPT ![p] = "done"]
    /\ UNCHANGED <<deployments, nextUuid, equivalent_services, idx, service, trace,
                   client>>
    /\ UNCHANGED <<serviceVars, localVars, toolVars>>

\* start_model_server(uuid, timeout)
StartModelServer(p, uuid, timeout) ==
    /\ pc[p] = "idle"
    /\ call' = [call EXCEPT ![p] = [op |-> "start", config |-> EmptyConfig,
                                    replace |-> FALSE, timeout |-> timeout,
                                    running |-> FALSE, service_uuid |-> uuid,
                                    force |-> FALSE]]
    /\ known' = [known EXCEPT ![p] = Uuids(deployments)]
    /\ result' = [result EXCEPT ![p] = NotImplemented]
    /\ pc' = [pc EXCEPT ![p] = "done"]
    /\ UNCHANGED <<deployments, nextUuid, equivalent_services, idx, service, trace,
                   client>>
    /\ UNCHANGED <<serviceVars, localVars, toolVars>>

\* ------------------------------------------------------------- base service
\* the service contract: start, stop and update of one service, whose resource
\* is provisioned, becomes ready, fails and goes away on its own schedule
STOPPING == "STOPPING"

\* the longest run of operations on the service
MaxOps == 3

\* the largest timeout, in polling intervals
MaxTimeout == 2

ServiceTimeouts == 0..MaxTimeout

\* diagnostic messages of a failed resource
Diagnostics == {"crash", "unschedulable"}

\* the Endpoint of a service: none before provisioning, its URL afterwards
NoEndpoint == "none"
Url == "url"

\* the service as constructed: identity, config, no Endpoint
NewService == [uuid |-> 1, config |-> Config("p1", "s1", "m1", "u1"),
               endpoint |-> NoEndpoint]

\* the resource behind the service, as check_status() reports it
Resource(st, msg) == [state |-> st, message |-> msg]

\* check_status(): (state, diagnostic message), recorded in the status
check_status(res) == [state |-> res.state, last_error |-> res.message]

\* a check_status() that takes a resource it does not see for a failed one
AbsentIsError == [state |-> ERROR, last_error |-> "not found"]

\* check_status() of a remote service whose resource is not to be seen right
\* after its creation: "classified as STARTING, not ERROR"
AbsentStatus == [state |-> STARTING, last_error |-> ""]

\* check_status() of a remote service
remote_check_status(res, gone) == IF gone THEN AbsentStatus ELSE check_status(res)

\* an exception that carries a message
RaisedWith(e, msg) == [kind |-> "raise", error |-> e, value |-> <<msg>>]

NoServiceCall == [op |-> "none", timeout |-> 0, force |-> FALSE,
                  config |-> NewService.config, initial |-> INACTIVE]

\* a step of an operation: provision, deprovision(force), or a poll and the
\* state it observed
ServiceEvent(o, st, f) == [op |-> o, state |-> st, force |-> f]

\* a start that provisions whatever the state
StartAlwaysProvisions(st) == FALSE

\* start: "if already ACTIVE, returns immediately"
StartIsNoOp(st) == st = ACTIVE

\* a start that polls whatever the timeout
AlwaysWaits(timeout) == TRUE

\* "timeout = 0 means return immediately after provisioning, do not wait"
Waits(timeout) == timeout > 0

\* a poll that takes ERROR for a state to wait in
NeverFails(st) == FALSE

\* "on ERROR, fails with an OperationalFailure error"
StartFails(st) == st = ERROR

\* a stop that deprovisions whatever the state
StopAlwaysDeprovisions(st) == FALSE

\* stop: "if already INACTIVE, returns immediately"
StopIsNoOp(st) == st = INACTIVE

\* a poll loop without deadline
NoDeadline(n, timeout) == FALSE

\* the deadline computed from the timeout has passed
DeadlinePassed(n, timeout) == n >= timeout

\* start(timeout)
ServiceStart(timeout) ==
    /\ srv_pc = "idle"
    /\ nops < MaxOps
    /\ nops' = nops + 1
    /\ srv_call' = [op |-> "start", timeout |-> timeout, force |-> FALSE,
                    config |-> srv.config, initial |-> remote_check_status(resource, absent).state]
    /\ elapsed' = 0
    /\ status' = remote_check_status(resource, absent)
    /\ IF StartIsNoOp(remote_check_status(resource, absent).state)
       THEN /\ srv_trace' = <<>>
            /\ srv_result' = Returned(<<>>)
            /\ srv_pc' = "done"
            /\ UNCHANGED <<resource, srv, absent>>
       ELSE /\ resource' = Resource(STARTING, "")
            /\ absent' \in IF status'.state = INACTIVE \/ absent
                            THEN BOOLEAN ELSE {FALSE}
            /\ srv' = [srv EXCEPT !.endpoint = Url]
            /\ srv_trace' = <<ServiceEvent("provision", resource.state, FALSE)>>
            /\ IF Waits(timeout)
               THEN srv_pc' = "start_poll" /\ srv_result' = NoResult
               ELSE srv_pc' = "done" /\ srv_result' = Returned(<<>>)
    /\ UNCHANGED <<deployerVars, localVars, toolVars>>

\* one turn of the poll loop of start: check_status, then return, fail or
\* sleep one interval
StartPoll ==
    /\ srv_pc = "start_poll"
    /\ status' = remote_check_status(resource, absent)
    /\ srv_trace' = Append(srv_trace, ServiceEvent("poll", status'.state, FALSE))
    /\ IF status'.state = ACTIVE
       THEN srv_pc' = "done" /\ srv_result' = Returned(<<>>) /\ UNCHANGED elapsed
       ELSE IF StartFails(status'.state)
       THEN /\ srv_pc' = "done"
            /\ srv_result' = RaisedWith("OperationalFailure", status'.last_error)
            /\ UNCHANGED elapsed
       ELSE IF DeadlinePassed(elapsed, srv_call.timeout)
       THEN srv_pc' = "done" /\ srv_result' = Raised("Timeout") /\ UNCHANGED elapsed
       ELSE elapsed' = elapsed + 1 /\ UNCHANGED <<srv_pc, srv_result>>
    /\ UNCHANGED <<srv, resource, srv_call, nops, absent>>
    /\ UNCHANGED <<deployerVars, localVars, toolVars>>

\* stop(timeout, force)
ServiceStop(timeout, force) ==
    /\ srv_pc = "idle"
    /\ nops < MaxOps
    /\ nops' = nops + 1
    /\ srv_call' = [op |-> "stop", timeout |-> timeout, force |-> force,
                    config |-> srv.config, initial |-> remote_check_status(resource, absent).state]
    /\ elapsed' = 0
    /\ status' = remote_check_status(resource, absent)
    /\ IF StopIsNoOp(remote_check_status(resource, absent).state)
       THEN /\ srv_trace' = <<>>
            /\ srv_result' = Returned(<<>>)
            /\ srv_pc' = "done"
            /\ UNCHANGED <<resource, srv, absent>>
       ELSE /\ resource' = Resource(STOPPING, "")
            /\ absent' = FALSE
            /\ srv' = [srv EXCEPT !.endpoint = NoEndpoint]
            /\ srv_trace' = <<ServiceEvent("deprovision", resource.state, force)>>
            /\ IF Waits(timeout)
               THEN srv_pc' = "stop_poll" /\ srv_result' = NoResult
               ELSE srv_pc' = "done" /\ srv_result' = Returned(<<>>)
    /\ UNCHANGED <<deployerVars, localVars, toolVars>>

\* one turn of the poll loop of stop
StopPoll ==
    /\ srv_pc = "stop_poll"
    /\ status' = remote_check_status(resource, absent)
    /\ srv_trace' = Append(srv_trace, ServiceEvent("poll", status'.state, FALSE))
    /\ IF status'.state = INACTIVE
       THEN srv_pc' = "done" /\ srv_result' = Returned(<<>>) /\ UNCHANGED elapsed
       ELSE IF DeadlinePassed(elapsed, srv_call.timeout)
       THEN srv_pc' = "done" /\ srv_result' = Raised("Timeout") /\ UNCHANGED elapsed
       ELSE elapsed' = elapsed + 1 /\ UNCHANGED <<srv_pc, srv_result>>
    /\ UNCHANGED <<srv, resource, srv_call, nops, absent>>
    /\ UNCHANGED <<deployerVars, localVars, toolVars>>

\* update(config)
UpdateService(config) ==
    /\ srv_pc = "idle"
    /\ nops < MaxOps
    /\ nops' = nops + 1
    /\ srv_call' = [op |-> "update", timeout |-> 0, force |-> FALSE,
                    config |-> config, initial |-> resource.state]
    /\ srv' = ServiceUpdate(srv, config)
    /\ srv_trace' = <<>>
    /\ srv_result' = Returned(<<>>)
    /\ srv_pc' = "done"
    /\ UNCHANGED <<resource, status, elapsed, absent>>
    /\ UNCHANGED <<deployerVars, localVars, toolVars>>

\* the call is over, the caller may make the next one
ServiceReturn ==
    /\ srv_pc = "done"
    /\ srv_pc' = "idle"
    /\ UNCHANGED <<srv, resource, status, srv_call, elapsed, srv_trace,
                   srv_result, nops, absent>>
    /\ UNCHANGED <<deployerVars, localVars, toolVars>>

\* the resource that was created comes into sight
ResourceAppears ==
    /\ absent
    /\ absent' = FALSE
    /\ UNCHANGED <<srv, resource, status, srv_pc, srv_call, elapsed, srv_trace,
                   srv_result, nops>>
    /\ UNCHANGED <<deployerVars, localVars, toolVars>>

\* STARTING -> ACTIVE: the provisioned resource becomes ready
ResourceActivates ==
    /\ resource.state = STARTING
    /\ ~absent
    /\ resource' = Resource(ACTIVE, "")
    /\ UNCHANGED <<srv, status, srv_pc, srv_call, elapsed, srv_trace,
                   srv_result, nops, absent>>
    /\ UNCHANGED <<deployerVars, localVars, toolVars>>

\* any state -> ERROR: a failure is detected
ResourceFails(msg) ==
    /\ resource.state # ERROR
    /\ ~absent
    /\ resource' = Resource(ERROR, msg)
    /\ UNCHANGED <<srv, status, srv_pc, srv_call, elapsed, srv_trace,
                   srv_result, nops, absent>>
    /\ UNCHANGED <<deployerVars, localVars, toolVars>>

\* STOPPING -> INACTIVE: the resource is torn down
ResourceStops ==
    /\ resource.state = STOPPING
    /\ resource' = Resource(INACTIVE, "")
    /\ UNCHANGED <<srv, status, srv_pc, srv_call, elapsed, srv_trace,
                   srv_result, nops, absent>>
    /\ UNCHANGED <<deployerVars, localVars, toolVars>>

\* ------------------------------------------------------ local daemon service
\* the longest run of operations of one caller on the local service
MaxLocalOps == 2

\* runtime directories: none recorded, root_runtime_path/<uuid>, and the
\* directories tempfile.mkdtemp hands out
NoPath == 0
RootPath == 1
TmpPath(k) == 1 + k
Paths == 1..(1 + MaxLocalOps)

\* process ids; NoPid is None
NoPid == 0

\* LocalDaemonServiceConfig, and whether the service has an endpoint
DaemonConfigs == [silent_daemon : BOOLEAN, root_runtime_path : BOOLEAN,
                  endpoint : BOOLEAN]

\* LocalDaemonServiceStatus as constructed
NewDaemonStatus == [runtime_path |-> NoPath, silent_daemon |-> FALSE]

NoDaemonCall == [op |-> "none", force |-> FALSE, stale |-> FALSE]

\* something _start_daemon or _stop_daemon does to the file system or to a
\* process
DaemonEvent(o, a) == [op |-> o, arg |-> a]

\* LocalDaemonServiceStatus.config_file; a file is named by its directory
config_file(st) == st.runtime_path

\* LocalDaemonServiceStatus.log_file
log_file(st) ==
    IF st.runtime_path = NoPath \/ st.silent_daemon THEN NoPath ELSE st.runtime_path

\* LocalDaemonServiceStatus.pid_file
pid_file(st) ==
    IF st.runtime_path = NoPath \/ st.silent_daemon THEN NoPath ELSE st.runtime_path

\* zenml.utils.daemon.get_daemon_pid_if_running: the process id the file
\* holds when that process is alive, None otherwise
get_daemon_pid_if_running(f) ==
    IF pidfile[f] # NoPid /\ pidfile[f] \in live THEN pidfile[f] ELSE NoPid

\* LocalDaemonServiceStatus.pid, on a platform other than win32
StatusPid(p) ==
    IF pid_file(lstatus[p]) = NoPath THEN NoPid
    ELSE get_daemon_pid_if_running(pid_file(lstatus[p]))

\* the PID file of the service holds the process id of a process that is gone
StalePid(p) ==
    /\ pid_file(lstatus[p]) # NoPath
    /\ pidfile[pid_file(lstatus[p])] # NoPid
    /\ pidfile[pid_file(lstatus[p])] \notin live

\* a check_status that trusts the process id the object saw last
CachedCheckStatus(p) ==
    IF pid[p] = NoPid THEN <<INACTIVE, "service daemon is not running">>
    ELSE <<ACTIVE, "">>

\* LocalDaemonService.check_status
LocalCheckStatus(p) ==
    IF StatusPid(p) = NoPid THEN <<INACTIVE, "service daemon is not running">>
    ELSE <<ACTIVE, "">>

\* a start that takes no daemon for running
NeverRunning(n) == FALSE

\* "if pid:" the daemon is already running
AlreadyRunning(n) == n # NoPid

\* _start_daemon, up to "if pid: return"
StartDaemon(p) ==
    /\ lpc[p] = "idle"
    /\ lops < MaxLocalOps
    /\ lops' = lops + 1
    /\ lcall' = [lcall EXCEPT ![p] = [op |-> "start", force |-> FALSE,
                                      stale |-> StalePid(p)]]
    /\ pid' = [pid EXCEPT ![p] = StatusPid(p)]
    /\ ltrace' = [ltrace EXCEPT ![p] = <<>>]
    /\ IF AlreadyRunning(StatusPid(p))
       THEN /\ lpc' = [lpc EXCEPT ![p] = "done"]
            /\ lresult' = [lresult EXCEPT ![p] = Returned(<<>>)]
       ELSE /\ lpc' = [lpc EXCEPT ![p] = "prepare"]
            /\ lresult' = [lresult EXCEPT ![p] = NoResult]
    /\ UNCHANGED <<daemon_config, lstatus, dirs, cfgfile, pidfile, logfile,
                   live, nextPid, nextTmp>>
    /\ UNCHANGED <<deployerVars, serviceVars, toolVars>>

\* "if self.endpoint: self.endpoint.prepare_for_start()"
PrepareForStart(p) ==
    /\ lpc[p] = "prepare"
    /\ ltrace' = [ltrace EXCEPT ![p] =
                    IF daemon_config.endpoint
                    THEN Append(@, DaemonEvent("prepare_for_start", 0)) ELSE @]
    /\ lpc' = [lpc EXCEPT ![p] = "cmd"]
    /\ UNCHANGED <<daemon_config, lstatus, dirs, cfgfile, pidfile, logfile,
                   live, nextPid, nextTmp, lcall, pid, lresult, lops>>
    /\ UNCHANGED <<deployerVars, serviceVars, toolVars>>

\* a spawn that takes a new temporary directory every time
FreshRuntimePath(st) == TmpPath(nextTmp)

\* the runtime directory _get_daemon_cmd uses: the recorded one while it
\* exists, else root_runtime_path/<uuid>, else a fresh temporary directory
RuntimePath(st) ==
    IF st.runtime_path # NoPath /\ st.runtime_path \in dirs THEN st.runtime_path
    ELSE IF daemon_config.root_runtime_path THEN RootPath
    ELSE TmpPath(nextTmp)

\* a spawn that leaves the PID file of a previous run in place
KeepsPidFile(f) == FALSE

\* "if os.path.exists(self.status.pid_file)": a previous run left a PID file
PidFileExists(f) == pidfile[f] # NoPid

\* a spawn that leaves the config file as it finds it
ConfigKept(f) == cfgfile

\* "with open(self.status.config_file, "w") as f: f.write(self.json(indent=4))"
ConfigWritten(f) == [cfgfile EXCEPT ![f] = TRUE]

\* _get_daemon_cmd
GetDaemonCmd(p) ==
    /\ lpc[p] = "cmd"
    /\ LET path == RuntimePath(lstatus[p])
           st == [runtime_path |-> path,
                  silent_daemon |-> daemon_config.silent_daemon]
       IN  /\ lstatus' = [lstatus EXCEPT ![p] = st]
           /\ dirs' = dirs \cup {path}
           /\ nextTmp' = IF path \notin dirs /\ path # RootPath
                         THEN nextTmp + 1 ELSE nextTmp
           /\ IF pid_file(st) = NoPath
              THEN /\ lresult' = [lresult EXCEPT ![p] = Raised("AssertionError")]
                   /\ lpc' = [lpc EXCEPT ![p] = "done"]
                   /\ UNCHANGED <<cfgfile, pidfile, logfile, ltrace>>
              ELSE /\ cfgfile' = ConfigWritten(config_file(st))
                   /\ pidfile' = IF PidFileExists(pid_file(st))
                                 THEN [pidfile EXCEPT ![pid_file(st)] = NoPid]
                                 ELSE pidfile
                   /\ logfile' = IF log_file(st) # NoPath
                                 THEN [logfile EXCEPT ![log_file(st)] = TRUE]
                                 ELSE logfile
                   /\ ltrace' = [ltrace EXCEPT ![p] =
                        @ \o <<DaemonEvent("write_config", config_file(st))>>
                          \o (IF PidFileExists(pid_file(st))
                              THEN <<DaemonEvent("remove_pid", pid_file(st))>>
                              ELSE <<>>)
                          \o (IF log_file(st) # NoPath
                              THEN <<DaemonEvent("touch_log", log_file(st))>>
                              ELSE <<>>)]
                   /\ lpc' = [lpc EXCEPT ![p] = "popen"]
                   /\ UNCHANGED lresult
    /\ UNCHANGED <<daemon_config, live, nextPid, lcall, pid, lops>>
    /\ UNCHANGED <<deployerVars, serviceVars, toolVars>>

\* "p = subprocess.Popen(command, env=command_env); p.wait()": the child
\* detaches a daemon that registers its process id in the PID file, or fails
\* to
Popen(p) ==
    /\ lpc[p] = "popen"
    /\ \E started \in BOOLEAN :
         IF started
         THEN /\ live' = live \cup {nextPid}
              /\ pidfile' = [pidfile EXCEPT ![pid_file(lstatus[p])] = nextPid]
              /\ nextPid' = nextPid + 1
              /\ ltrace' = [ltrace EXCEPT ![p] = Append(@, DaemonEvent("launch", nextPid))]
         ELSE /\ ltrace' = [ltrace EXCEPT ![p] = Append(@, DaemonEvent("launch", NoPid))]
              /\ UNCHANGED <<live, pidfile, nextPid>>
    /\ lpc' = [lpc EXCEPT ![p] = "reread"]
    /\ UNCHANGED <<daemon_config, lstatus, dirs, cfgfile, logfile, nextTmp,
                   lcall, pid, lresult, lops>>
    /\ UNCHANGED <<deployerVars, serviceVars, toolVars>>

\* "pid = self.status.pid" after the launch; both branches only log
RereadPid(p) ==
    /\ lpc[p] = "reread"
    /\ pid' = [pid EXCEPT ![p] = StatusPid(p)]
    /\ lresult' = [lresult EXCEPT ![p] = Returned(<<>>)]
    /\ lpc' = [lpc EXCEPT ![p] = "done"]
    /\ UNCHANGED <<daemon_config, lstatus, dirs, cfgfile, pidfile, logfile,
                   live, nextPid, nextTmp, lcall, ltrace, lops>>
    /\ UNCHANGED <<deployerVars, serviceVars, toolVars>>

\* _stop_daemon(force), up to "if not pid: return"
StopDaemon(p, force) ==
    /\ lpc[p] = "idle"
    /\ lops < MaxLocalOps
    /\ lops' = lops + 1
    /\ lcall' = [lcall EXCEPT ![p] = [op |-> "stop", force |-> force,
                                      stale |-> StalePid(p)]]
    /\ pid' = [pid EXCEPT ![p] = StatusPid(p)]
    /\ ltrace' = [ltrace EXCEPT ![p] = <<>>]
    /\ IF StatusPid(p) = NoPid
       THEN /\ lpc' = [lpc EXCEPT ![p] = "done"]
            /\ lresult' = [lresult EXCEPT ![p] = Returned(<<>>)]
       ELSE /\ lpc' = [lpc EXCEPT ![p] = "lookup"]
            /\ lresult' = [lresult EXCEPT ![p] = NoResult]
    /\ UNCHANGED <<daemon_config, lstatus, dirs, cfgfile, pidfile, logfile,
                   live, nextPid, nextTmp>>
    /\ UNCHANGED <<deployerVars, serviceVars, toolVars>>

\* "try: p = psutil.Process(pid) except psutil.Error: return"
LookupProcess(p) ==
    /\ lpc[p] = "lookup"
    /\ IF pid[p] \in live
       THEN /\ lpc' = [lpc EXCEPT ![p] = "signal"]
            /\ UNCHANGED lresult
       ELSE /\ lpc' = [lpc EXCEPT ![p] = "done"]
            /\ lresult' = [lresult EXCEPT ![p] = Returned(<<>>)]
    /\ UNCHANGED <<daemon_config, lstatus, dirs, cfgfile, pidfile, logfile,
                   live, nextPid, nextTmp, lcall, pid, ltrace, lops>>
    /\ UNCHANGED <<deployerVars, serviceVars, toolVars>>

\* a stop that asks the process to end whatever force says
AlwaysTerminate(force) == "terminate"

\* the signal of a stop: "if force: p.kill() else: p.terminate()"
Signal(force) == IF force THEN "kill" ELSE "terminate"

\* the PID file after process n is gone: a daemon that exits in order removes
\* its record, one that is killed or crashes leaves it
PidFilesAfter(n, cleaned) ==
    IF cleaned THEN [f \in Paths |-> IF pidfile[f] = n THEN NoPid ELSE pidfile[f]]
    ELSE pidfile

\* p.kill() / p.terminate(), outside the try: a process that is gone by now
\* makes psutil raise NoSuchProcess
SendSignal(p) ==
    /\ lpc[p] = "signal"
    /\ IF pid[p] \in live
       THEN /\ ltrace' = [ltrace EXCEPT ![p] =
                            Append(@, DaemonEvent(Signal(lcall[p].force), pid[p]))]
            /\ lresult' = [lresult EXCEPT ![p] = Returned(<<>>)]
            /\ \E exited \in BOOLEAN, cleaned \in BOOLEAN :
                 /\ cleaned => (exited /\ ~lcall[p].force)
                 /\ live' = IF exited THEN live \ {pid[p]} ELSE live
                 /\ pidfile' = PidFilesAfter(pid[p], cleaned)
       ELSE /\ lresult' = [lresult EXCEPT ![p] = Raised("NoSuchProcess")]
            /\ UNCHANGED <<ltrace, live, pidfile>>
    /\ lpc' = [lpc EXCEPT ![p] = "done"]
    /\ UNCHANGED <<daemon_config, lstatus, dirs, cfgfile, logfile, nextPid,
                   nextTmp, lcall, pid, lops>>
    /\ UNCHANGED <<deployerVars, serviceVars, toolVars>>

\* check_status()
CheckStatus(p) ==
    /\ lpc[p] = "idle"
    /\ lops < MaxLocalOps
    /\ lops' = lops + 1
    /\ lcall' = [lcall EXCEPT ![p] = [op |-> "check_status", force |-> FALSE,
                                      stale |-> StalePid(p)]]
    /\ pid' = [pid EXCEPT ![p] = StatusPid(p)]
    /\ ltrace' = [ltrace EXCEPT ![p] = <<>>]
    /\ lresult' = [lresult EXCEPT ![p] = Returned(LocalCheckStatus(p))]
    /\ lpc' = [lpc EXCEPT ![p] = "done"]
    /\ UNCHANGED <<daemon_config, lstatus, dirs, cfgfile, pidfile, logfile,
                   live, nextPid, nextTmp>>
    /\ UNCHANGED <<deployerVars, serviceVars, toolVars>>

\* the call is over, the caller may make the next one
LocalReturn(p) ==
    /\ lpc[p] = "done"
    /\ lpc' = [lpc EXCEPT ![p] = "idle"]
    /\ UNCHANGED <<daemon_config, lstatus, dirs, cfgfile, pidfile, logfile,
                   live, nextPid, nextTmp, lcall, pid, ltrace, lresult, lops>>
    /\ UNCHANGED <<deployerVars, serviceVars, toolVars>>

\* the managing process restarts: the service object is created again from its
\* saved definition, status fields included, and points at the runtime
\* directory of the first object
Recreate(p) ==
    /\ p # 1
    /\ lpc[p] = "idle"
    /\ lstatus[p] # lstatus[1]
    /\ lstatus' = [lstatus EXCEPT ![p] = lstatus[1]]
    /\ UNCHANGED <<daemon_config, dirs, cfgfile, pidfile, logfile, live, nextPid,
                   nextTmp, lpc, lcall, pid, ltrace, lresult, lops>>
    /\ UNCHANGED <<deployerVars, serviceVars, toolVars>>

\* between two operations a runtime directory is removed from the disk with
\* the files in it ("or not os.path.exists(self.status.runtime_path)")
RemoveDir ==
    /\ \A p \in Procs : lpc[p] \in {"idle", "done"}
    /\ \E f \in dirs :
         /\ dirs' = dirs \ {f}
         /\ cfgfile' = [cfgfile EXCEPT ![f] = FALSE]
         /\ pidfile' = [pidfile EXCEPT ![f] = NoPid]
         /\ logfile' = [logfile EXCEPT ![f] = FALSE]
    /\ UNCHANGED <<daemon_config, lstatus, live, nextPid, nextTmp, lpc, lcall,
                   pid, ltrace, lresult, lops>>
    /\ UNCHANGED <<deployerVars, serviceVars, toolVars>>

\* a daemon process ends on its own, with or without removing its PID file
DaemonExits ==
    \E n \in live, cleaned \in BOOLEAN :
      /\ live' = live \ {n}
      /\ pidfile' = PidFilesAfter(n, cleaned)
      /\ UNCHANGED <<daemon_config, lstatus, dirs, cfgfile, logfile, nextPid,
                     nextTmp, lpc, lcall, pid, ltrace, lresult, lops>>
      /\ UNCHANGED <<deployerVars, serviceVars, toolVars>>

\* ------------------------------------------------------ repository lookup
\* no directory: path is None, the environment variable is not set
NoDir == 0

NoRepositoryCall == [path |-> NoDir, env |-> NoDir, cwd |-> NoDir]

\* the directories: the filesystem root and a line of directories below it,
\* each the parent of the next
MaxDepth == 3
RootDir == 1
Directories == RootDir..MaxDepth

\* fileio.is_root
is_root(d) == d = RootDir

\* path_.parent; the root is its own parent
parent(d) == IF is_root(d) THEN d ELSE d - 1

\* Repository.is_repository_directory
is_repository_directory(d) == d \in repos

\* the explicit path: the argument, else the value of ZENML_REPOSITORY_PATH
ExplicitPath(path, env) == IF path # NoDir THEN path ELSE env

\* a lookup that walks up from an explicit path too
AlwaysSearchParents(explicit) == TRUE

\* search_parent_directories: False "if path", True otherwise
SearchParents(explicit) == explicit = NoDir

\* find_repository(path), up to the first call of _find_repo_helper
FindRepository(path, env, cwd) ==
    /\ fr_pc = "idle"
    /\ fr_call' = [path |-> path, env |-> env, cwd |-> cwd]
    /\ fr_path' = IF ExplicitPath(path, env) # NoDir
                  THEN ExplicitPath(path, env) ELSE cwd
    /\ visited' = <<>>
    /\ fr_pc' = "helper"
    /\ UNCHANGED <<repos, fr_result>>
    /\ UNCHANGED <<deployerVars, serviceVars, localVars, registryVars>>

\* one call of _find_repo_helper(path_)
FindRepoHelper ==
    /\ fr_pc = "helper"
    /\ visited' = Append(visited, fr_path)
    /\ IF is_repository_directory(fr_path)
       THEN /\ fr_result' = Returned(<<fr_path>>)
            /\ fr_pc' = "done"
            /\ UNCHANGED fr_path
       ELSE IF ~SearchParents(ExplicitPath(fr_call.path, fr_call.env))
               \/ is_root(fr_path)
       THEN /\ fr_result' = Raised("RepositoryNotFoundError")
            /\ fr_pc' = "done"
            /\ UNCHANGED fr_path
       ELSE /\ fr_path' = parent(fr_path)
            /\ UNCHANGED <<fr_pc, fr_result>>
    /\ UNCHANGED <<repos, fr_call>>
    /\ UNCHANGED <<deployerVars, serviceVars, localVars, registryVars>>

\* ------------------------------------------- stack component class registry
\* the longest run of operations on the registry
MaxRegistryOps == 3

\* StackComponentType values and flavors
ComponentTypes == {"orchestrator", "metadata_store"}
ComponentFlavors == {"local", "mysql"}

\* a stack component class: its name and its TYPE and FLAVOR attributes
ComponentClass(n, t, f) == [name |-> n, TYPE |-> t, FLAVOR |-> f]

\* no class: a key the dict of the type does not have
NoComponentClass == ComponentClass("", "", "")

\* "component_classes = defaultdict(dict)"
EmptyRegistry ==
    [t \in ComponentTypes |-> [f \in ComponentFlavors |-> NoComponentClass]]

\* the classes the module registers when it is imported
BuiltinClasses ==
    <<ComponentClass("LocalOrchestrator", "orchestrator", "local"),
      ComponentClass("MySQLMetadataStore", "metadata_store", "mysql")>>

\* classes a caller registers, of any type and flavor
CustomClasses ==
    {ComponentClass(n, t, f) :
       n \in {"Custom1", "Custom2"}, t \in ComponentTypes, f \in ComponentFlavors}

\* classes that integrations register when they are activated
IntegrationClasses ==
    <<ComponentClass("Integration1", "orchestrator", "mysql"),
      ComponentClass("Integration2", "metadata_store", "mysql")>>

\* a registry that keeps the class registered first
register_if_absent(reg, c) ==
    IF reg[c.TYPE][c.FLAVOR] = NoComponentClass
    THEN [reg EXCEPT ![c.TYPE][c.FLAVOR] = c] ELSE reg

\* register_class: "flavors[component_flavor] = component_class"
register_class(reg, c) == [reg EXCEPT ![c.TYPE][c.FLAVOR] = c]

\* register_class called for each class of a sequence, in order
RECURSIVE RegisterAll(_, _)
RegisterAll(reg, cs) ==
    IF cs = <<>> THEN reg
    ELSE RegisterAll(register_class(reg, Head(cs)), Tail(cs))

\* a lookup that finds nothing at the first try
NeverRegistered(reg, t, f) == FALSE

\* "return available_flavors[component_flavor]" does not raise KeyError
Registered(reg, t, f) == reg[t][f] # NoComponentClass

NoRegistryCall ==
    [op |-> "none", class |-> NoComponentClass, type |-> "", flavor |-> ""]

\* register_class(component_class) / register_stack_component_class(cls)
RegisterClass(c) ==
    /\ reg_ops < MaxRegistryOps
    /\ reg_ops' = reg_ops + 1
    /\ reg_call' = [op |-> "register", class |-> c, type |-> c.TYPE,
                    flavor |-> c.FLAVOR]
    /\ component_classes' = register_class(component_classes, c)
    /\ reg_result' = Returned(<<>>)
    /\ UNCHANGED <<pending, activations>>
    /\ UNCHANGED <<deployerVars, serviceVars, localVars, repositoryVars>>

\* integration_registry.activate_integrations(): the integrations not
\* imported yet are imported and register their classes
activate_integrations(reg, ints) == RegisterAll(reg, ints)

\* get_class(component_type, component_flavor)
GetClass(t, f) ==
    /\ reg_ops < MaxRegistryOps
    /\ reg_ops' = reg_ops + 1
    /\ reg_call' = [op |-> "get", class |-> NoComponentClass, type |-> t,
                    flavor |-> f]
    /\ IF Registered(component_classes, t, f)
       THEN /\ reg_result' = Returned(<<component_classes[t][f]>>)
            /\ UNCHANGED <<component_classes, pending, activations>>
       ELSE LET activated == activate_integrations(component_classes, pending)
            IN  /\ component_classes' = activated
                /\ pending' = <<>>
                /\ activations' = activations + 1
                /\ reg_result' = IF Registered(activated, t, f)
                                 THEN Returned(<<activated[t][f]>>)
                                 ELSE Raised("KeyError")
    /\ UNCHANGED <<deployerVars, serviceVars, localVars, repositoryVars>>

\* ------------------------------------------------------------ specification
\* the backend before the first call: up to MaxInitial records in the order
\* the client lists them, with distinct identities
InitialDeployments ==
    UNION {[1..n -> [config : InitialConfigs, creationTimestamp : Stamps,
                     state : {ACTIVE, STARTING}]] : n \in 0..MaxInitial}

\* the registry after the import of its module
RegistryIdle ==
    /\ component_classes = RegisterAll(EmptyRegistry, BuiltinClasses)
    /\ pending = <<>>
    /\ activations = 0
    /\ reg_call = NoRegistryCall
    /\ reg_result = NoResult
    /\ reg_ops = 0

\* no repository anywhere, no lookup made
RepositoryIdle ==
    /\ repos = {}
    /\ fr_call = NoRepositoryCall
    /\ fr_path = NoDir
    /\ fr_pc = "idle"
    /\ visited = <<>>
    /\ fr_result = NoResult

\* no call made on the deployer
DeployerIdle ==
    /\ pc = [p \in Procs |-> "idle"]
    /\ call = [p \in Procs |-> NoCall]
    /\ equivalent_services = [p \in Procs |-> <<>>]
    /\ idx = [p \in Procs |-> 1]
    /\ service = [p \in Procs |-> None]
    /\ trace = [p \in Procs |-> <<>>]
    /\ known = [p \in Procs |-> {}]
    /\ result = [p \in Procs |-> NoResult]
    /\ client = NoClient

\* a service as constructed, its resource not provisioned
ServiceIdle ==
    /\ srv = NewService
    /\ resource = Resource(INACTIVE, "")
    /\ status = check_status(Resource(INACTIVE, ""))
    /\ srv_pc = "idle"
    /\ srv_call = NoServiceCall
    /\ elapsed = 0
    /\ srv_trace = <<>>
    /\ srv_result = NoResult
    /\ nops = 0
    /\ absent = FALSE

\* a local service as constructed: never started, nothing on disk
LocalIdle ==
    /\ lstatus = [p \in Procs |-> NewDaemonStatus]
    /\ dirs = {}
    /\ cfgfile = [f \in Paths |-> FALSE]
    /\ pidfile = [f \in Paths |-> NoPid]
    /\ logfile = [f \in Paths |-> FALSE]
    /\ live = {}
    /\ nextPid = 1
    /\ nextTmp = 1
    /\ lpc = [p \in Procs |-> "idle"]
    /\ lcall = [p \in Procs |-> NoDaemonCall]
    /\ pid = [p \in Procs |-> NoPid]
    /\ ltrace = [p \in Procs |-> <<>>]
    /\ lresult = [p \in Procs |-> NoResult]
    /\ lops = 0

Init ==
    /\ \E ds \in InitialDeployments :
         /\ deployments = [i \in 1..Len(ds) |->
                             Deployment(i, ds[i].config, ds[i].creationTimestamp,
                                        ds[i].state)]
         /\ nextUuid = Len(ds) + 1
    /\ DeployerIdle
    /\ ServiceIdle
    /\ daemon_config = [silent_daemon |-> FALSE, root_runtime_path |-> FALSE,
                        endpoint |-> FALSE]
    /\ LocalIdle
    /\ RegistryIdle
    /\ RepositoryIdle

Step(p) ==
    \/ \E c \in DeployConfigs, r \in BOOLEAN, t \in Timeouts : DeployModel(p, c, r, t)
    \/ DeployLoop(p)
    \/ DeployApply(p)
    \/ DeployStart(p)
    \/ \E r \in BOOLEAN, c \in FindQueries, u \in FindUuids : FindModelServer(p, r, c, u)

\* one caller runs one operation
Next == Step(1)

Spec == Init /\ [][Next]_vars

\* the operations on one deployed model server, named by its identity
ServerStep(p) ==
    \/ \E u \in CallUuids, t \in Timeouts, f \in BOOLEAN : DeleteModelServer(p, u, t, f)
    \/ \E u \in CallUuids, t \in Timeouts, f \in BOOLEAN : StopModelServer(p, u, t, f)
    \/ \E u \in CallUuids, t \in Timeouts : StartModelServer(p, u, t)

\* one caller runs one of them
NextServer == ServerStep(1)

SpecServer == Init /\ [][NextServer]_vars

\* two callers run deploy_model at the same time against a backend that holds
\* no deployment; their steps interleave freely
InitConcurrent ==
    /\ deployments = <<>>
    /\ nextUuid = 1
    /\ DeployerIdle
    /\ ServiceIdle
    /\ daemon_config = [silent_daemon |-> FALSE, root_runtime_path |-> FALSE,
                        endpoint |-> FALSE]
    /\ LocalIdle
    /\ RegistryIdle
    /\ RepositoryIdle

DeployStep(p) ==
    \/ \E c \in DeployConfigs, r \in BOOLEAN, t \in Timeouts : DeployModel(p, c, r, t)
    \/ DeployLoop(p)
    \/ DeployApply(p)
    \/ DeployStart(p)

NextConcurrent == \E p \in Procs : DeployStep(p)

SpecConcurrent == InitConcurrent /\ [][NextConcurrent]_vars

\* deploy_model calls made one after the other: the second call begins when
\* the first has ended
InitSequential ==
    /\ \E n \in 0..MaxInitial : \E cs \in [1..n -> InitialConfigs] :
         /\ deployments = [i \in 1..n |-> Deployment(i, cs[i], NoStamp, ACTIVE)]
         /\ nextUuid = n + 1
    /\ DeployerIdle
    /\ ServiceIdle
    /\ daemon_config = [silent_daemon |-> FALSE, root_runtime_path |-> FALSE,
                        endpoint |-> FALSE]
    /\ LocalIdle
    /\ RegistryIdle
    /\ RepositoryIdle

SecondDeploy == pc[1] = "done" /\ DeployStep(2)

NextSequential == DeployStep(1) \/ SecondDeploy

SpecSequential == InitSequential /\ [][NextSequential]_vars

\* find_model_server calls made one after the other on one deployer, while
\* deployments come and go in the backend
FindStep(p) ==
    \E r \in BOOLEAN, c \in FindQueries, u \in FindUuids : FindModelServer(p, r, c, u)

SecondFind == pc[1] = "done" /\ FindStep(2)

NextFind ==
    \/ FindStep(1)
    \/ SecondFind
    \/ \E c \in InitialConfigs, st \in {ACTIVE, STARTING} : BackendCreates(c, st)
    \/ \E id \in CallUuids : BackendDeletes(id)

SpecFind == InitSequential /\ [][NextFind]_vars

\* the class registry: classes are registered and looked up, with none, one
\* or two integrations installed that are not activated yet
InitRegistry ==
    /\ deployments = <<>>
    /\ nextUuid = 1
    /\ DeployerIdle
    /\ ServiceIdle
    /\ daemon_config = [silent_daemon |-> FALSE, root_runtime_path |-> FALSE,
                        endpoint |-> FALSE]
    /\ LocalIdle
    /\ component_classes = RegisterAll(EmptyRegistry, BuiltinClasses)
    /\ pending \in {SubSeq(IntegrationClasses, 1, n) : n \in 0..Len(IntegrationClasses)}
    /\ activations = 0
    /\ reg_call = NoRegistryCall
    /\ reg_result = NoResult
    /\ reg_ops = 0
    /\ RepositoryIdle

NextRegistry ==
    \/ \E c \in CustomClasses : RegisterClass(c)
    \/ \E t \in ComponentTypes, f \in ComponentFlavors : GetClass(t, f)

SpecRegistry == InitRegistry /\ [][NextRegistry]_vars

\* the repository lookup: one call, on any set of repositories, with or
\* without path argument and environment variable, from any working directory
InitRepository ==
    /\ deployments = <<>>
    /\ nextUuid = 1
    /\ DeployerIdle
    /\ ServiceIdle
    /\ daemon_config = [silent_daemon |-> FALSE, root_runtime_path |-> FALSE,
                        endpoint |-> FALSE]
    /\ LocalIdle
    /\ RegistryIdle
    /\ repos \in SUBSET Directories
    /\ fr_call = NoRepositoryCall
    /\ fr_path = NoDir
    /\ fr_pc = "idle"
    /\ visited = <<>>
    /\ fr_result = NoResult

NextRepository ==
    \/ \E path \in Directories \cup {NoDir}, env \in Directories \cup {NoDir},
          cwd \in Directories : FindRepository(path, env, cwd)
    \/ FindRepoHelper

\* the call runs: the helper that can take its next step takes it
SpecRepository ==
    InitRepository /\ [][NextRepository]_vars /\ WF_vars(FindRepoHelper)

\* the service contract: a caller makes operations on one service, one after
\* the other, while its resource changes state on its own
InitService ==
    /\ deployments = <<>>
    /\ nextUuid = 1
    /\ DeployerIdle
    /\ ServiceIdle
    /\ daemon_config = [silent_daemon |-> FALSE, root_runtime_path |-> FALSE,
                        endpoint |-> FALSE]
    /\ LocalIdle
    /\ RegistryIdle
    /\ RepositoryIdle

ServiceStep ==
    \/ \E t \in ServiceTimeouts : ServiceStart(t)
    \/ StartPoll
    \/ \E t \in ServiceTimeouts, f \in BOOLEAN : ServiceStop(t, f)
    \/ StopPoll
    \/ \E c \in InitialConfigs : UpdateService(c)
    \/ ServiceReturn
    \/ ResourceAppears
    \/ ResourceActivates
    \/ \E msg \in Diagnostics : ResourceFails(msg)
    \/ ResourceStops

NextService == ServiceStep

SpecService == InitService /\ [][NextService]_vars

\* the caller's thread runs: a poll loop that can take its next turn takes it
SpecServiceFair == SpecService /\ WF_vars(StartPoll) /\ WF_vars(StopPoll)

\* the local daemon service: one caller makes operations on it, one after the
\* other, while its daemon may end on its own
InitLocal ==
    /\ deployments = <<>>
    /\ nextUuid = 1
    /\ DeployerIdle
    /\ ServiceIdle
    /\ daemon_config \in DaemonConfigs
    /\ LocalIdle
    /\ RegistryIdle
    /\ RepositoryIdle

LocalStep(p) ==
    \/ StartDaemon(p)
    \/ PrepareForStart(p)
    \/ GetDaemonCmd(p)
    \/ Popen(p)
    \/ RereadPid(p)
    \/ \E f \in BOOLEAN : StopDaemon(p, f)
    \/ LookupProcess(p)
    \/ SendSignal(p)
    \/ CheckStatus(p)
    \/ LocalReturn(p)

\* what is done with a re-created object: its status is asked for
RecreatedStep(p) ==
    \/ Recreate(p)
    \/ CheckStatus(p)
    \/ LocalReturn(p)

NextLocal == LocalStep(1) \/ DaemonExits \/ RecreatedStep(2) \/ RemoveDir

SpecLocal == InitLocal /\ [][NextLocal]_vars

\* two processes hold an object of one local service, whose runtime directory
\* is root_runtime_path/<uuid> for both, and start it at the same time
InitLocalConcurrent ==
    /\ deployments = <<>>
    /\ nextUuid = 1
    /\ DeployerIdle
    /\ ServiceIdle
    /\ daemon_config \in {c \in DaemonConfigs :
                            c.root_runtime_path /\ ~c.silent_daemon}
    /\ LocalIdle
    /\ RegistryIdle
    /\ RepositoryIdle

StartStep(p) ==
    \/ StartDaemon(p)
    \/ PrepareForStart(p)
    \/ GetDaemonCmd(p)
    \/ Popen(p)
    \/ RereadPid(p)
    \/ LocalReturn(p)

NextLocalConcurrent == (\E p \in Procs : StartStep(p)) \/ DaemonExits

SpecLocalConcurrent == InitLocalConcurrent /\ [][NextLocalConcurrent]_vars

\* ------------------------------------------------------------------ claims
\* the events of a call that are of one kind
EventsOf(p, o) == {k \in 1..Len(trace[p]) : trace[p][k].op = o}

\* a deploy_model(config, replace=true) call
Replacing(p) == call[p].op = "deploy" /\ call[p].replace

\* the call has returned a service
ReturnedService(p) == pc[p] = "done" /\ result[p].kind = "return"

\* the identities with the most recent creation time among a list of services
Newest(es) ==
    {es[j].uuid : j \in {i \in 1..Len(es) :
                           \A k \in 1..Len(es) : SortKey(es[i]) >= SortKey(es[k])}}

\* C1: in deploy_model(config, replace=true), whenever find_model_server
\* returned one or more equivalent services, the service kept as update target
\* has the most recent creation time among them, every update and start of
\* the call is on it, and a returning call has updated, started and returned it.
C1_UpdateTargetIsMostRecent ==
    \A p \in Procs :
      (Replacing(p) /\ Len(equivalent_services[p]) >= 1) =>
        LET newest == Newest(equivalent_services[p])
        IN  /\ service[p] # None => service[p].uuid \in newest
            /\ \A k \in EventsOf(p, "update") \cup EventsOf(p, "start") :
                 trace[p][k].uuid \in newest
            /\ ReturnedService(p) =>
                 /\ EventsOf(p, "update") # {}
                 /\ EventsOf(p, "start") # {}
                 /\ result[p].value[1].uuid \in newest

\* a replacing deploy returned with two or more matches of different age
C1_Witness ==
    \E p \in Procs :
      /\ Replacing(p) /\ ReturnedService(p)
      /\ Len(equivalent_services[p]) >= 2
      /\ SortKey(equivalent_services[p][1]) > SortKey(equivalent_services[p][2])

\* C2: in deploy_model(config, replace=true) with n >= 2 equivalent services,
\* once the loop over them is over, stop has been attempted on each of the
\* n-1 services other than the most recently created one.
C2_SupersededAreStopped ==
    \A p \in Procs :
      (/\ Replacing(p)
       /\ Len(equivalent_services[p]) >= 2
       /\ pc[p] \in {"apply", "start"} \/ ReturnedService(p)) =>
        \A j \in 2..Len(equivalent_services[p]) :
          \E k \in EventsOf(p, "stop") :
            trace[p][k].uuid = equivalent_services[p][j].uuid

\* C3: a failure of any kind raised by a cleanup stop never aborts the deploy:
\* a deploy_model call never ends with the exception of a stop call.
C3_StopFailureNeverAborts ==
    \A p \in Procs :
      (call[p].op = "deploy" /\ pc[p] = "done" /\ result[p].kind = "raise") =>
        trace[p][Len(trace[p])].op # "stop"

\* C4: deploy_model(config, replace=true) that finds equivalent deployments
\* returns a service with the identity of the most recent one, an identity that
\* existed before the call, and constructs no new service; when it finds none,
\* the returned identity is new and differs from every existing one.
C4_ReplaceKeepsIdentity ==
    \A p \in Procs :
      (Replacing(p) /\ ReturnedService(p)) =>
        LET id == result[p].value[1].uuid
        IN  IF Len(equivalent_services[p]) >= 1
            THEN /\ id \in Newest(equivalent_services[p])
                 /\ id \in known[p]
                 /\ EventsOf(p, "new") = {}
            ELSE /\ id \notin known[p]
                 /\ EventsOf(p, "new") # {}
                 /\ EventsOf(p, "update") = {}

\* a replacing deploy returned the existing identity with a new model URI
C4_Witness ==
    \E p \in Procs :
      /\ Replacing(p) /\ ReturnedService(p)
      /\ Len(equivalent_services[p]) >= 1
      /\ equivalent_services[p][1].config.model_uri # call[p].config.model_uri
      /\ result[p].value[1].uuid = equivalent_services[p][1].uuid
      /\ result[p].value[1].config = call[p].config

\* C5: deploy_model(config, replace=false) makes no find query and calls
\* neither update nor stop; the service it constructs, starts and returns has
\* a fresh identity, different from every existing deployment's.
C5_NoReplaceCreatesNew ==
    \A p \in Procs :
      (call[p].op = "deploy" /\ ~call[p].replace) =>
        /\ EventsOf(p, "find") = {}
        /\ EventsOf(p, "stop") = {}
        /\ EventsOf(p, "update") = {}
        /\ pc[p] \in {"start", "done"} =>
             /\ Cardinality(EventsOf(p, "new")) = 1
             /\ service[p].uuid \notin known[p]
             /\ \A k \in EventsOf(p, "new") \cup EventsOf(p, "start") :
                  trace[p][k].uuid = service[p].uuid
        /\ ReturnedService(p) => result[p].value[1].uuid \notin known[p]

\* a non-replacing deploy returned although an equivalent deployment existed
C5_Witness ==
    \E p \in Procs :
      /\ call[p].op = "deploy" /\ ~call[p].replace /\ ReturnedService(p)
      /\ \E i \in 1..Len(deployments) :
           /\ deployments[i].uuid \in known[p]
           /\ LabelsMatch(deployments[i], EquivalenceQuery(call[p].config), 0)

\* the deployments of the equivalence class of a config that are not stopped
Remaining(c) ==
    {i \in 1..Len(deployments) : LabelsMatch(deployments[i], EquivalenceQuery(c), 0)}

\* C6: after deploy_model(config, replace=true) returned and no stop call
\* failed during it, at most one instance of config's equivalence class
\* remains that has not been stopped, and it is the returned service.
C6_OneInstanceRemains ==
    \A p \in Procs :
      (/\ Replacing(p) /\ ReturnedService(p)
       /\ \A k \in EventsOf(p, "stop") : trace[p][k].outcome \in {"ok", "noop"}) =>
        /\ Cardinality(Remaining(call[p].config)) <= 1
        /\ \A i \in Remaining(call[p].config) :
             deployments[i].uuid = result[p].value[1].uuid

FoundServices(p) == call[p].op = "find" /\ ReturnedService(p)

\* C8: the list find_model_server returns is in descending order of the
\* creation timestamps of the deployment records, for both values of running.
C8_FindSortedDescending ==
    \A p \in Procs :
      FoundServices(p) =>
        \A i, j \in 1..Len(result[p].value) :
          i < j => SortKey(result[p].value[i]) >= SortKey(result[p].value[j])

\* find(running=true) returned two services of different age that the client
\* listed oldest first
C8_Witness ==
    \E p \in Procs :
      /\ FoundServices(p) /\ call[p].running
      /\ Len(result[p].value) = 2
      /\ SortKey(result[p].value[1]) > SortKey(result[p].value[2])
      /\ IndexOf(deployments, result[p].value[1].uuid)
           > IndexOf(deployments, result[p].value[2].uuid)

\* the creation timestamp of a service's record is missing
StampMissing(s) == s.creationTimestamp.kind = "none"

\* C9 as stated: in the result of find_model_server every service whose record
\* has no creation timestamp comes after every service whose record has one.
C9_MissingAfterEveryStamped ==
    \A p \in Procs :
      FoundServices(p) =>
        \A i, j \in 1..Len(result[p].value) :
          (StampMissing(result[p].value[i]) /\ ~StampMissing(result[p].value[j]))
            => j < i

\* C9 as amended: in the result of find_model_server every service whose
\* record has no creation timestamp comes after every service whose record
\* has a timestamp later than datetime.min.
C9_MissingAfterLaterStamped ==
    \A p \in Procs :
      FoundServices(p) =>
        \A i, j \in 1..Len(result[p].value) :
          (/\ StampMissing(result[p].value[i])
           /\ ~StampMissing(result[p].value[j])
           /\ strptime(result[p].value[j].creationTimestamp) > DatetimeMin)
            => j < i

\* a record without timestamp that the client listed first was returned
\* behind a record with a timestamp
C9_Witness ==
    \E p \in Procs :
      /\ FoundServices(p)
      /\ Len(result[p].value) >= 2
      /\ StampMissing(result[p].value[2])
      /\ ~StampMissing(result[p].value[1])
      /\ IndexOf(deployments, result[p].value[2].uuid)
           < IndexOf(deployments, result[p].value[1].uuid)

\* C10: find_model_server returns normally when a listed deployment record
\* has a creation timestamp that cannot be parsed.
C10_UnparsableDoesNotFail ==
    \A p \in Procs :
      (/\ call[p].op = "find" /\ pc[p] = "done"
       /\ \E i \in 1..Len(deployments) :
            /\ LabelsMatch(deployments[i], call[p].config, call[p].service_uuid)
            /\ deployments[i].creationTimestamp.kind = "bad") =>
        result[p].kind = "return"

\* the services a find_model_server call has to return, as identities: the
\* records that carry the labels of the query and, with running, are ACTIVE
Expected(p) ==
    {deployments[i].uuid : i \in {k \in 1..Len(deployments) :
        /\ LabelsMatch(deployments[k], call[p].config, call[p].service_uuid)
        /\ call[p].running => deployments[k].state = ACTIVE}}

\* C11: find_model_server(running=true) returns exactly the matching services
\* whose state is ACTIVE, find_model_server(running=false) one service per
\* matching record whatever its state; when no record matches the call returns
\* the empty list and raises nothing.
C11_FindRunningFilter ==
    \A p \in Procs :
      (call[p].op = "find" /\ pc[p] = "done") =>
        /\ result[p].kind = "return" =>
             /\ {result[p].value[i].uuid : i \in 1..Len(result[p].value)} = Expected(p)
             /\ Len(result[p].value) = Cardinality(Expected(p))
             /\ \A i \in 1..Len(result[p].value) :
                  call[p].running => result[p].value[i].state = ACTIVE
        /\ find_deployments(deployments, call[p].config, call[p].service_uuid) = <<>>
             => result[p] = Returned(<<>>)

\* find(running=true) met an ACTIVE and a STARTING record and returned the
\* first only
C11_Witness ==
    \E p \in Procs :
      /\ FoundServices(p) /\ call[p].running
      /\ Len(find_deployments(deployments, call[p].config, call[p].service_uuid)) = 2
      /\ Len(result[p].value) = 1
      /\ result[p].value[1].state = ACTIVE

\* C12: delete_model_server(uuid) for an identity without deployment returns
\* successfully, calls stop on no service and leaves the backend as it was.
C12_DeleteMissingIsNoOp ==
    [][\A p \in Procs :
         (/\ pc[p] = "idle" /\ call'[p].op = "delete"
          /\ call'[p].service_uuid \notin Uuids(deployments)) =>
           /\ result'[p] = Returned(<<>>)
           /\ \A k \in 1..Len(trace'[p]) : trace'[p][k].op # "stop"
           /\ deployments' = deployments
           /\ nextUuid' = nextUuid]_vars

\* a delete of an unknown identity has returned while deployments exist
C12_Witness ==
    \E p \in Procs :
      /\ call[p].op = "delete" /\ pc[p] = "done"
      /\ call[p].service_uuid \notin known[p]
      /\ known[p] # {}
      /\ result[p] = Returned(<<>>)

C14_StartStopNotSupported ==
    [][\A p \in Procs :
         (pc[p] = "idle" /\ call'[p].op \in {"start", "stop"}) =>
           /\ result'[p] = Raised("NotImplementedError")
           /\ trace'[p] = <<>>
           /\ deployments' = deployments
           /\ nextUuid' = nextUuid]_vars

\* a forced stop_model_server of an existing deployment has failed
C14_Witness ==
    \E p \in Procs :
      /\ call[p].op = "stop" /\ pc[p] = "done"
      /\ call[p].force
      /\ call[p].service_uuid \in Uuids(deployments)
      /\ result[p].error = "NotImplementedError"

\* a start call of the service contract was just made
StartCalled == srv_pc = "idle" /\ srv_pc' # "idle" /\ srv_call'.op = "start"

\* the steps of the current operation on the service that are polls
Polls == {k \in 1..Len(srv_trace) : srv_trace[k].op = "poll"}

\* C15: start() on a service whose state is ACTIVE calls no provision() and
\* returns at once, whatever the timeout; service and resource stay as they
\* were.
C15_StartOnActiveIsNoOp ==
    [][(StartCalled /\ resource.state = ACTIVE) =>
         /\ srv_pc' = "done"
         /\ srv_result' = Returned(<<>>)
         /\ srv_trace' = <<>>
         /\ resource' = resource
         /\ srv' = srv]_vars

\* a start with the largest timeout found the service ACTIVE and returned
C15_Witness ==
    /\ srv_call.op = "start" /\ srv_pc = "done"
    /\ srv_call.timeout = MaxTimeout
    /\ srv_call.initial = ACTIVE
    /\ srv_trace = <<>>
    /\ srv_result = Returned(<<>>)

\* C16: start(timeout = N > 0) on a service that is not ACTIVE ends in one of
\* three ways: it returns and the last check_status gave ACTIVE; it fails with
\* OperationalFailure carrying the diagnostic message and the last
\* check_status gave ERROR; it fails with Timeout and no check_status before
\* the deadline gave ACTIVE or ERROR. Until then it has not returned.
C16_StartOutcomes ==
    (srv_call.op = "start" /\ srv_call.timeout > 0 /\ srv_call.initial # ACTIVE) =>
      /\ srv_pc # "stop_poll"
      /\ srv_pc = "start_poll" =>
           /\ srv_result = NoResult
           /\ \A k \in Polls : srv_trace[k].state \notin {ACTIVE, ERROR}
      /\ srv_pc = "done" =>
           /\ Polls # {}
           /\ srv_trace[Len(srv_trace)].state = status.state
           /\ \A k \in Polls : k < Len(srv_trace) =>
                                 srv_trace[k].state \notin {ACTIVE, ERROR}
           /\ \/ /\ srv_result = Returned(<<>>)
                 /\ status.state = ACTIVE
              \/ /\ srv_result = RaisedWith("OperationalFailure", status.last_error)
                 /\ status.state = ERROR
                 /\ status.last_error \in Diagnostics
              \/ /\ srv_result = Raised("Timeout")
                 /\ status.state \notin {ACTIVE, ERROR}
                 /\ Cardinality(Polls) = srv_call.timeout + 1

\* a start polled a STARTING service once and then met ERROR: it failed with
\* the diagnostic message
C16_Witness ==
    /\ srv_call.op = "start" /\ srv_pc = "done"
    /\ srv_call.timeout > 0
    /\ Cardinality(Polls) = 2
    /\ srv_trace[2].state = STARTING
    /\ srv_result = RaisedWith("OperationalFailure", "crash")

\* C17: start(timeout = 0) on a service that is not ACTIVE provisions exactly
\* once and returns, without poll and without Timeout, the service being left
\* in STARTING.
C17_StartWithoutWait ==
    [][(StartCalled /\ srv_call'.timeout = 0 /\ resource.state # ACTIVE) =>
         /\ srv_trace' = <<ServiceEvent("provision", resource.state, FALSE)>>
         /\ srv_pc' = "done"
         /\ srv_result' = Returned(<<>>)
         /\ resource'.state = STARTING]_vars

\* a start(0) of a failed service has returned after its one provision
C17_Witness ==
    /\ srv_call.op = "start" /\ srv_pc = "done"
    /\ srv_call.timeout = 0
    /\ srv_call.initial = ERROR
    /\ Len(srv_trace) = 1 /\ srv_trace[1].op = "provision"
    /\ resource.state = STARTING
    /\ srv_result = Returned(<<>>)

\* C18: stop(timeout, force) on a service that is INACTIVE calls no
\* deprovision and returns at once; on any other it calls deprovision(force)
\* once, as its first step, and then only polls, until a poll gives INACTIVE
\* or the deadline has passed.
C18_StopContract ==
    (srv_call.op = "stop") =>
      /\ srv_pc # "start_poll"
      /\ srv_call.initial = INACTIVE =>
           srv_pc # "stop_poll" /\ srv_trace = <<>> /\ srv_result = Returned(<<>>)
      /\ srv_call.initial # INACTIVE =>
           /\ Len(srv_trace) >= 1
           /\ srv_trace[1] = ServiceEvent("deprovision", srv_call.initial, srv_call.force)
           /\ Polls = 2..Len(srv_trace)
           /\ \A k \in Polls : k < Len(srv_trace) => srv_trace[k].state # INACTIVE
           /\ srv_pc = "stop_poll" =>
                /\ srv_result = NoResult
                /\ \A k \in Polls : srv_trace[k].state # INACTIVE
           /\ (srv_pc = "done" /\ srv_call.timeout > 0) =>
                \/ srv_result = Returned(<<>>) /\ srv_trace[Len(srv_trace)].state = INACTIVE
                \/ /\ srv_result = Raised("Timeout")
                   /\ Cardinality(Polls) = srv_call.timeout + 1
                   /\ srv_trace[Len(srv_trace)].state # INACTIVE
           /\ (srv_pc = "done" /\ srv_call.timeout = 0) =>
                srv_result = Returned(<<>>) /\ Polls = {}

\* a forced stop of an ACTIVE service polled twice and returned on INACTIVE
C18_Witness ==
    /\ srv_call.op = "stop" /\ srv_pc = "done"
    /\ srv_call.force /\ srv_call.initial = ACTIVE
    /\ Cardinality(Polls) = 2
    /\ srv_result = Returned(<<>>)
    /\ status.state = INACTIVE

\* C19: every update(config) call makes config the config of the service and
\* leaves its identity and its Endpoint as they were, at any place in a
\* sequence of calls.
C19_UpdateKeepsIdentity ==
    [][(srv_pc = "idle" /\ srv_pc' # "idle" /\ srv_call'.op = "update") =>
         /\ srv'.config = srv_call'.config
         /\ srv'.uuid = srv.uuid
         /\ srv'.endpoint = srv.endpoint]_vars

\* the second of two updates changed the config of a provisioned service
C19_Witness ==
    /\ srv_call.op = "update" /\ srv_pc = "done"
    /\ nops = MaxOps
    /\ srv.endpoint = Url
    /\ srv.uuid = NewService.uuid
    /\ srv.config = srv_call.config
    /\ srv.config # NewService.config

\* C20: _start_daemon on a service with a live PID on record returns at once:
\* no endpoint is prepared, no config file written, no PID file removed, no
\* process launched; files, processes, status and the tracked PID are as
\* before.
C20_StartOnLivePidIsNoOp ==
    [][\A p \in Procs :
         (/\ lpc[p] = "idle" /\ lpc'[p] # "idle" /\ lcall'[p].op = "start"
          /\ StatusPid(p) # NoPid) =>
           /\ lpc'[p] = "done"
           /\ lresult'[p] = Returned(<<>>)
           /\ ltrace'[p] = <<>>
           /\ UNCHANGED <<dirs, cfgfile, pidfile, logfile, live, nextPid,
                          nextTmp, lstatus>>
           /\ pid'[p] = StatusPid(p)
           /\ StatusPid(p)' = StatusPid(p)]_vars

\* a second start of a service with an endpoint found its daemon alive
C20_Witness ==
    \E p \in Procs :
      /\ lcall[p].op = "start" /\ lpc[p] = "done"
      /\ lops = 2
      /\ daemon_config.endpoint
      /\ ltrace[p] = <<>>
      /\ pid[p] # NoPid /\ pid[p] \in live
      /\ pidfile[lstatus[p].runtime_path] = pid[p]

\* the steps of the current operation of caller p on the local service that
\* are o
LocalEventsOf(p, o) == {k \in 1..Len(ltrace[p]) : ltrace[p][k].op = o}

\* C21: a PID file that names a dead process does not make the service
\* running: a start that finds one goes on to spawn, removes the stale PID
\* file before the launch, launches a process, and a daemon that comes up
\* gets a process id of its own.
C21_StalePidRecovery ==
    \A p \in Procs :
      (lcall[p].op = "start" /\ lcall[p].stale) =>
        /\ ~(lpc[p] = "done" /\ ltrace[p] = <<>>)
        /\ lpc[p] \in {"popen", "reread", "done", "idle"} =>
             LocalEventsOf(p, "remove_pid") # {}
        /\ lpc[p] = "popen" => pidfile[pid_file(lstatus[p])] = NoPid
        /\ lpc[p] \in {"reread", "done", "idle"} =>
             /\ Cardinality(LocalEventsOf(p, "launch")) = 1
             /\ \A k \in LocalEventsOf(p, "remove_pid"), j \in LocalEventsOf(p, "launch") :
                  /\ k < j
                  /\ ltrace[p][j].arg # NoPid =>
                       pidfile[pid_file(lstatus[p])] \in {NoPid, ltrace[p][j].arg}
        /\ lpc[p] \in {"done", "idle"} => lresult[p] = Returned(<<>>)

\* a start found the PID file of a crashed daemon, removed it, and its new
\* daemon is alive and on record
C21_Witness ==
    \E p \in Procs :
      /\ lcall[p].op = "start" /\ lcall[p].stale /\ lpc[p] = "done"
      /\ LocalEventsOf(p, "remove_pid") # {}
      /\ pid[p] # NoPid /\ pid[p] \in live
      /\ pidfile[pid_file(lstatus[p])] = pid[p]

\* C22: a spawn with silent_daemon = true succeeds: the start returns
\* normally, having written the config file and launched the daemon with no
\* log file, and a daemon that came up is read back as running.
C22_SilentSpawnSucceeds ==
    \A p \in Procs :
      (lcall[p].op = "start" /\ daemon_config.silent_daemon /\ lpc[p] = "done") =>
        /\ lresult[p] = Returned(<<>>)
        /\ LocalEventsOf(p, "write_config") # {}
        /\ LocalEventsOf(p, "launch") # {}
        /\ LocalEventsOf(p, "touch_log") = {}
        /\ \A j \in LocalEventsOf(p, "launch") :
             (ltrace[p][j].arg # NoPid /\ ltrace[p][j].arg \in live) => StatusPid(p) # NoPid

\* C23: _stop_daemon sends terminate when force is false and kill when it is
\* true, one signal, to the process id it read from the PID file and to no
\* other process; when no live process id is on record, or the process is
\* not found, it sends nothing and returns normally.
C23_StopSignals ==
    [][\A p \in Procs :
         /\ (lpc[p] = "idle" /\ lpc'[p] # "idle" /\ lcall'[p].op = "stop"
               /\ StatusPid(p) = NoPid) =>
              /\ lpc'[p] = "done"
              /\ lresult'[p] = Returned(<<>>)
              /\ ltrace'[p] = <<>>
              /\ live' = live
         /\ (lpc[p] = "idle" /\ lpc'[p] # "idle" /\ lcall'[p].op = "stop"
               /\ StatusPid(p) # NoPid) =>
              /\ pid'[p] = pidfile[pid_file(lstatus[p])]
              /\ ltrace'[p] = <<>>
              /\ live' = live
         /\ (lpc[p] = "lookup" /\ lpc'[p] # "lookup") =>
              /\ ltrace'[p] = <<>>
              /\ live' = live
              /\ pid[p] \notin live => (lpc'[p] = "done" /\ lresult'[p] = Returned(<<>>))
         /\ (lpc[p] = "signal" /\ lpc'[p] # "signal") =>
              /\ live \ live' \subseteq {pid[p]}
              /\ ltrace'[p] \in
                   {<<>>,
                    <<DaemonEvent(IF lcall[p].force THEN "kill" ELSE "terminate", pid[p])>>}
              /\ pid[p] \in live =>
                   (ltrace'[p] # <<>> /\ lresult'[p] = Returned(<<>>))]_vars

\* a forced stop killed the daemon it had on record
C23_Witness ==
    \E p \in Procs :
      /\ lcall[p].op = "stop" /\ lcall[p].force /\ lpc[p] = "done"
      /\ ltrace[p] = <<DaemonEvent("kill", pid[p])>>
      /\ pid[p] # NoPid /\ pid[p] \notin live
      /\ lresult[p] = Returned(<<>>)

\* the last call of caller p was a start whose launch left no live process id
\* on record
LaunchFailed(p) ==
    /\ lcall[p].op = "start" /\ lpc[p] = "idle"
    /\ LocalEventsOf(p, "launch") # {}
    /\ pid[p] = NoPid

\* C24: when a launch ended without a live process id on record, the next
\* check_status() gives ERROR and a diagnostic message.
C24_LaunchFailureSurfaces ==
    [][\A p \in Procs :
         (LaunchFailed(p) /\ lcall'[p].op = "check_status") =>
           /\ lresult'[p].value[1] = ERROR
           /\ lresult'[p].value[2] # ""]_vars

\* the transitions of the service state machine
LegalTransitions ==
    {<<INACTIVE, STARTING>>, <<STARTING, ACTIVE>>, <<ACTIVE, STOPPING>>,
     <<ERROR, STOPPING>>, <<STOPPING, INACTIVE>>}
      \cup {<<st, ERROR>> : st \in {INACTIVE, STARTING, ACTIVE, STOPPING}}

\* C25: the state of a local service, as check_status() evaluates it, changes
\* along the transitions of the state machine only.
C25_LegalTransitionsOnly ==
    [][\A p \in Procs :
         LocalCheckStatus(p)'[1] # LocalCheckStatus(p)[1] =>
           <<LocalCheckStatus(p)[1], LocalCheckStatus(p)'[1]>> \in LegalTransitions]_vars

\* a step of start or stop that evaluates check_status()
Evaluates ==
    \/ srv_pc = "idle" /\ srv_pc' # "idle" /\ srv_call'.op \in {"start", "stop"}
    \/ srv_pc \in {"start_poll", "stop_poll"} /\ Len(srv_trace') > Len(srv_trace)

\* C26: while the resource of a remote service is not to be seen after its
\* creation, every check_status() gives STARTING and not ERROR, and no start
\* fails with OperationalFailure at such a poll.
C26_AbsentIsStarting ==
    [][(absent /\ Evaluates) =>
         /\ status'.state = STARTING
         /\ status'.state # ERROR
         /\ srv_result'.error # "OperationalFailure"]_vars

\* a start has polled a resource that is still not to be seen, and waits on
C26_Witness ==
    /\ srv_call.op = "start" /\ srv_pc = "start_poll"
    /\ absent
    /\ Polls # {}
    /\ status.state = STARTING
    /\ srv_result = NoResult

\* caller p is past the choice between update and create
Applied(p) == call[p].op = "deploy" /\ pc[p] \in {"start", "done"} /\ service[p] # None

\* C27: deploy_model calls that interleave are not kept apart: each caller
\* decides on the list its own lookup returned, creating a new service exactly
\* when that list was empty and updating otherwise, whatever the other caller
\* has created since; new services get identities of their own.
C27_NoMutualExclusion ==
    \A p \in Procs :
      Applied(p) =>
        /\ EventsOf(p, "new") # {} <=> equivalent_services[p] = <<>>
        /\ EventsOf(p, "update") # {} <=> equivalent_services[p] # <<>>
        /\ \A q \in Procs \ {p} :
             (Applied(q) /\ EventsOf(p, "new") # {} /\ EventsOf(q, "new") # {})
               => service[p].uuid # service[q].uuid

\* two interleaved deploy_model(config, replace=True) calls for one
\* equivalence class, begun with no deployment in the backend, have both
\* returned a new service: the class has two instances
C27_Witness ==
    /\ \A p \in Procs :
         /\ Replacing(p) /\ ReturnedService(p)
         /\ known[p] = {}
         /\ EventsOf(p, "new") # {}
    /\ EquivalenceQuery(call[1].config) = EquivalenceQuery(call[2].config)
    /\ service[1].uuid # service[2].uuid
    /\ Len(deployments) = 2
    /\ \A i \in 1..Len(deployments) :
         EquivalenceQuery(deployments[i].config) = EquivalenceQuery(call[1].config)

\* C28: during deploy_model(config, replace=true) no cleanup stop is made on
\* the selected update target, the most recent equivalent service, however
\* many equivalent services the lookup returned.
C28_TargetNeverStopped ==
    \A p \in Procs :
      (Replacing(p) /\ equivalent_services[p] # <<>>) =>
        \A k \in EventsOf(p, "stop") :
          trace[p][k].uuid # equivalent_services[p][1].uuid

\* the failures of start that deploy_model's contract names
StartFailures == {"Timeout", "OperationalFailure"}

\* the start event of a finished deploy_model call that got as far as start
StartEventOf(p) == trace[p][Len(trace[p])]

\* C29: when start(timeout) on the chosen service, update target or new
\* service, fails with Timeout or OperationalFailure, deploy_model ends by
\* raising that same failure and hands no service to its caller.
C29_StartFailurePropagates ==
    \A p \in Procs :
      (/\ call[p].op = "deploy" /\ pc[p] = "done"
       /\ EventsOf(p, "start") # {}
       /\ StartEventOf(p).outcome \in StartFailures) =>
        /\ StartEventOf(p).op = "start"
        /\ StartEventOf(p).uuid = service[p].uuid
        /\ result[p] = Raised(StartEventOf(p).outcome)
        /\ ~ReturnedService(p)

\* a deploy_model call that updated an existing service has ended with the
\* OperationalFailure of its start
C29_Witness ==
    \E p \in Procs :
      /\ call[p].op = "deploy" /\ pc[p] = "done"
      /\ EventsOf(p, "start") # {}
      /\ EventsOf(p, "update") # {}
      /\ StartEventOf(p).outcome = "OperationalFailure"
      /\ result[p].kind = "raise"

\* the PID file of the runtime directory of caller p's object names a process
\* that is alive
NamesLiveProcess(p) ==
    /\ lstatus[p].runtime_path # NoPath
    /\ pidfile[lstatus[p].runtime_path] # NoPid
    /\ pidfile[lstatus[p].runtime_path] \in live

\* C30: check_status() of a local daemon service returns ACTIVE exactly when
\* the PID file of its runtime directory names a live process and INACTIVE
\* otherwise, a never-started service without runtime directory included;
\* nothing the object remembers enters the result, so an object created again
\* for the same runtime directory gets the same answer without any start.
C30_StatusFromPidFile ==
    [][\A p \in Procs :
         (lpc[p] = "idle" /\ lpc'[p] = "done" /\ lcall'[p].op = "check_status") =>
           /\ lresult'[p].kind = "return"
           /\ lresult'[p].value[1] = IF NamesLiveProcess(p) THEN ACTIVE ELSE INACTIVE
           /\ lstatus' = lstatus /\ pidfile' = pidfile /\ live' = live]_vars

\* an object created again for the runtime directory of a running daemon,
\* never started itself, has reported ACTIVE
C30_Witness ==
    /\ lcall[2].op = "check_status" /\ lpc[2] = "done"
    /\ lresult[2].value[1] = ACTIVE
    /\ pid[2] # NoPid /\ pid[2] \in live
    /\ lstatus[2].runtime_path = lstatus[1].runtime_path
    /\ lcall[1].op = "start"

\* the runtime directory recorded for caller p's object is on the disk
DirectoryExists(p) ==
    lstatus[p].runtime_path # NoPath /\ lstatus[p].runtime_path \in dirs

\* C31: the runtime directory of a local daemon service is stable: a spawn
\* that finds the recorded directory on the disk keeps it, and with it the
\* config, PID and log file paths; the recorded directory changes only in a
\* spawn that found none recorded or the recorded one gone, and then to
\* root_runtime_path/<uuid> when root_runtime_path is configured and to a
\* directory that did not exist otherwise; under root_runtime_path it is
\* never anything else.
C31_RuntimeDirectoryStable ==
    [][/\ (lpc[1] = "cmd" /\ lpc'[1] # "cmd" /\ DirectoryExists(1)) =>
            /\ lstatus'[1].runtime_path = lstatus[1].runtime_path
            /\ config_file(lstatus'[1]) = config_file(lstatus[1])
            /\ pid_file(lstatus'[1]) = pid_file(lstatus[1])
            /\ log_file(lstatus'[1]) = log_file(lstatus[1])
       /\ lstatus'[1].runtime_path # lstatus[1].runtime_path =>
            /\ lpc[1] = "cmd" /\ ~DirectoryExists(1)
            /\ lstatus'[1].runtime_path \in dirs'
            /\ IF daemon_config.root_runtime_path
               THEN lstatus'[1].runtime_path = RootPath
               ELSE lstatus'[1].runtime_path \notin dirs \cup {RootPath}
       /\ (daemon_config.root_runtime_path /\ lstatus'[1].runtime_path # NoPath)
             => lstatus'[1].runtime_path = RootPath]_vars

\* a second spawn is about to launch from the one temporary directory the
\* service ever had: the daemon of the first spawn is gone, the directory was
\* there, and it was used again
C31_Witness ==
    /\ lpc[1] = "popen" /\ lcall[1].op = "start"
    /\ ~daemon_config.root_runtime_path
    /\ nextPid = 2 /\ live = {}
    /\ nextTmp = 2
    /\ lstatus[1].runtime_path = TmpPath(1)
    /\ dirs = {TmpPath(1)}

\* the positions of the events of one kind in the trace of caller p's call
LocalEventsAt(p, o) == {k \in 1..Len(ltrace[p]) : ltrace[p][k].op = o}

\* C32: on every spawn of a local daemon the child is launched once, only
\* after the config file was written in this call and with no PID file left
\* in place; the launch step is over only when the child has exited, and a
\* _start_daemon that did not find the daemon running returns only after
\* that, never before the launch.
C32_SpawnOrdering ==
    [][/\ (lpc[1] = "popen" /\ lpc'[1] # "popen") =>
            /\ cfgfile[config_file(lstatus[1])]
            /\ \E k \in LocalEventsAt(1, "write_config") :
                 ltrace[1][k].arg = config_file(lstatus[1])
            /\ pidfile[pid_file(lstatus[1])] = NoPid
            /\ LocalEventsAt(1, "launch") = {}
            /\ lpc'[1] = "reread"
            /\ ltrace'[1][Len(ltrace'[1])].op = "launch"
            /\ \A k \in LocalEventsAt(1, "write_config") \cup
                        LocalEventsAt(1, "remove_pid") : k < Len(ltrace'[1])
       /\ (lcall'[1].op = "start" /\ lpc[1] # "done" /\ lpc'[1] = "done"
           /\ lresult'[1].kind = "return") =>
            \/ lpc[1] = "idle" /\ StatusPid(1) # NoPid /\ ltrace'[1] = <<>>
            \/ /\ lpc[1] = "reread"
               /\ Cardinality(LocalEventsAt(1, "launch")) = 1
               /\ ltrace[1][Len(ltrace[1])].op = "launch"]_vars

\* a spawn that rewrote the config file of an earlier run and removed the PID
\* file that run had left has launched its child and returned
C32_Witness ==
    /\ lcall[1].op = "start" /\ lpc[1] = "done" /\ lresult[1].kind = "return"
    /\ LocalEventsAt(1, "write_config") # {}
    /\ LocalEventsAt(1, "remove_pid") # {}
    /\ LocalEventsAt(1, "launch") # {}
    /\ nextPid = 3
    /\ pid[1] = 2

\* C33: _stop_daemon never raises, at whatever point of it the daemon process
\* exits on its own: between reading the PID and looking the process up, or
\* between the lookup and the signal.
C33_StopNeverRaises ==
    \A p \in Procs :
      (lcall[p].op = "stop" /\ lpc[p] = "done") => lresult[p].kind = "return"

\* C34: two start operations made at the same time on one local service
\* identity, one runtime directory, never leave two live daemon processes of
\* the service, and a PID file present while a daemon of the service lives
\* names a live daemon.
C34_OneDaemonPerService ==
    /\ Cardinality(live) <= 1
    /\ (pidfile[RootPath] # NoPid /\ live # {}) => pidfile[RootPath] \in live

\* the number of deployments of config c's equivalence class in backend deps
ClassSize(deps, c) ==
    Cardinality({i \in 1..Len(deps) : LabelsMatch(deps[i], EquivalenceQuery(c), 0)})

\* what holds of a replace call from its lookup on
NoInstanceAdded(p) ==
    /\ equivalent_services[p] # <<>> =>
         /\ ClassSize(deployments, call[p].config) <= Len(equivalent_services[p])
         /\ EventsOf(p, "new") = {}
    /\ EventsOf(p, "new") # {} =>
         /\ equivalent_services[p] = <<>>
         /\ EventsOf(p, "stop") = {}

\* C35: in deploy_model(config, replace=true) calls made one after the other,
\* the lookup of a call returns every deployment of config's equivalence
\* class there is; a call that found one or more never has, at any of its
\* steps or at its end, more deployments of the class than it found, whatever
\* its cleanup stops did, and constructs no new service; a new service is
\* constructed only in a call whose lookup returned no match.
C35_ReplaceNeverAddsInstance ==
    [][\A p \in Procs :
         (/\ call'[p].op = "deploy" /\ call'[p].replace
          /\ pc'[p] # pc[p] \/ idx'[p] # idx[p]) =>
           /\ (pc[p] = "idle" /\ result'[p].kind # "raise") =>
                Len(equivalent_services'[p]) = ClassSize(deployments, call'[p].config)
           /\ NoInstanceAdded(p)']_vars

\* the second of two calls made one after the other has returned with two
\* deployments of its class in the backend, after a cleanup stop of its own
\* that failed: it updated the service it found and added none
C35_Witness ==
    /\ pc[1] = "done" /\ Replacing(2) /\ ReturnedService(2)
    /\ \E k \in EventsOf(2, "stop") : trace[2][k].outcome = "RuntimeError"
    /\ EventsOf(2, "new") = {}
    /\ ClassSize(deployments, call[2].config) = 2

\* the call is waiting in its poll loop
Polling == srv_pc \in {"start_poll", "stop_poll"}

\* the states the polls of the call in progress have observed
Observed == {srv_trace[k].state : k \in {i \in 1..Len(srv_trace) : srv_trace[i].op = "poll"}}

\* C36: the wait of start and stop with a finite timeout ends: every turn of
\* the poll loop that does not leave it uses up one interval of the timeout,
\* no turn is taken past the deadline, the loop has left as soon as a poll
\* observed a terminal state (ACTIVE or ERROR for start, INACTIVE for stop),
\* and every call that is polling reaches its end, whatever states the
\* resource goes through.
C36_PollTerminates ==
    /\ [](Polling =>
            /\ elapsed <= srv_call.timeout
            /\ Cardinality({i \in 1..Len(srv_trace) : srv_trace[i].op = "poll"}) = elapsed
            /\ srv_pc = "start_poll" => Observed \cap {ACTIVE, ERROR} = {}
            /\ srv_pc = "stop_poll" => INACTIVE \notin Observed)
    /\ (Polling ~> srv_pc = "done")

\* a start has polled to its deadline without seeing a terminal state and
\* has ended with Timeout
C36_Witness ==
    /\ srv_call.op = "start" /\ srv_pc = "done"
    /\ srv_call.timeout = MaxTimeout
    /\ elapsed = MaxTimeout
    /\ srv_result = Raised("Timeout")
    /\ Observed = {STARTING}

\* the identities of the deployments in the backend that a find_model_server
\* call with these arguments is to return
Current(running, c, service_uuid) ==
    {deployments[i].uuid : i \in {k \in 1..Len(deployments) :
        /\ LabelsMatch(deployments[k], c, service_uuid)
        /\ running => deployments[k].state = ACTIVE}}

\* C37: find_model_server serves no cached records: the services every call
\* returns are those of the deployments the backend holds when the call is
\* made, so what was created or deleted since an earlier call with the same
\* filter shows; the deployer constructs its client at the first call that
\* needs it and never again.
C37_FindNeverCached ==
    [][/\ \A p \in Procs :
            (pc[p] = "idle" /\ call'[p].op = "find") =>
              /\ result'[p].kind = "return" =>
                   Uuids(result'[p].value) =
                     Current(call'[p].running, call'[p].config, call'[p].service_uuid)
              /\ client' = 1
       /\ client # NoClient => client' = client]_vars

\* a second find_model_server call with the filter of the first has returned
\* a deployment created after the first call and not one deleted since, and
\* used the client the first call constructed
C37_Witness ==
    /\ \A p \in Procs :
         call[p].op = "find" /\ pc[p] = "done" /\ result[p].kind = "return"
    /\ call[1] = call[2]
    /\ Uuids(result[2].value) \ Uuids(result[1].value) # {}
    /\ Uuids(result[1].value) \ Uuids(result[2].value) # {}
    /\ client = 1

\* a register_class call is made in this step
Registers == reg_ops' # reg_ops /\ reg_call'.op = "register"

\* C38: every register_class call returns and leaves its class stored for
\* the class's (type, flavor) pair, whether or not a class was stored for the
\* pair before, and leaves what is stored for every other pair as it was; so
\* after any sequence of calls a pair holds the class registered last for it.
C38_LastRegistrationWins ==
    [][Registers =>
         /\ reg_result'.kind = "return"
         /\ \A t \in ComponentTypes, f \in ComponentFlavors :
              component_classes'[t][f] =
                IF t = reg_call'.class.TYPE /\ f = reg_call'.class.FLAVOR
                THEN reg_call'.class
                ELSE component_classes[t][f]]_vars

\* a class registered for the pair of a class registered before has taken
\* its place, and the other pair registered at import holds its class still
C38_Witness ==
    /\ reg_call.op = "register" /\ reg_call.class.name = "Custom2"
    /\ reg_ops = 2
    /\ component_classes["orchestrator"]["local"].name = "Custom2"
    /\ component_classes["metadata_store"]["mysql"].name = "MySQLMetadataStore"

\* a get_class call is made in this step
Gets == reg_ops' # reg_ops /\ reg_call'.op = "get"

\* C39: get_class returns the class registered for (type, flavor) and
\* activates nothing when one is registered; when none is, it activates the
\* integrations once, looks up again, and returns the class if the
\* activation registered one for the pair and raises KeyError otherwise.
C39_GetClassActivatesOnce ==
    [][Gets =>
         LET t == reg_call'.type
             f == reg_call'.flavor
         IN  IF component_classes[t][f] # NoComponentClass
             THEN /\ reg_result' = Returned(<<component_classes[t][f]>>)
                  /\ activations' = activations
                  /\ component_classes' = component_classes
                  /\ pending' = pending
             ELSE /\ activations' = activations + 1
                  /\ IF component_classes'[t][f] # NoComponentClass
                     THEN reg_result' = Returned(<<component_classes'[t][f]>>)
                     ELSE reg_result' = Raised("KeyError")]_vars

\* a get_class call for a pair that only an integration provides has
\* activated the integrations and returned the integration's class
C39_Witness ==
    /\ reg_call.op = "get" /\ reg_call.type = "orchestrator"
    /\ reg_call.flavor = "mysql"
    /\ activations = 1
    /\ reg_result.kind = "return"
    /\ reg_result.value[1].name = "Integration1"

\* the explicit path of the call in progress, NoDir when there is none
Explicit == IF fr_call.path # NoDir THEN fr_call.path ELSE fr_call.env

\* the directory checked last
LastVisited == visited[Len(visited)]

NotFound == Raised("RepositoryNotFoundError")

\* C40: find_repository with an explicit path, the argument before the
\* environment variable, checks that path alone and returns it or raises
\* RepositoryNotFoundError; without one it checks the working directory and
\* then parent after parent, returns the first directory that is a
\* repository, and raises RepositoryNotFoundError when the root is checked
\* and is none; every call ends.
C40_FindRepository ==
    /\ [](fr_pc # "idle" =>
            IF Explicit # NoDir
            THEN /\ visited \in {<<>>, <<Explicit>>}
                 /\ fr_pc = "done" =>
                      /\ visited = <<Explicit>>
                      /\ fr_result = IF Explicit \in repos
                                     THEN Returned(<<Explicit>>) ELSE NotFound
            ELSE /\ Len(visited) <= fr_call.cwd
                 /\ \A k \in 1..Len(visited) : visited[k] = fr_call.cwd - (k - 1)
                 /\ \A k \in 1..(Len(visited) - 1) : visited[k] \notin repos
                 /\ fr_pc = "done" =>
                      /\ visited # <<>>
                      /\ IF LastVisited \in repos
                         THEN fr_result = Returned(<<LastVisited>>)
                         ELSE is_root(LastVisited) /\ fr_result = NotFound)
    /\ (fr_pc = "helper" ~> fr_pc = "done")

\* a lookup without explicit path, begun in the lowest directory, has passed
\* a directory that holds no repository and returned its parent, below the
\* root
C40_Witness ==
    /\ fr_pc = "done" /\ Explicit = NoDir
    /\ fr_call.cwd = MaxDepth
    /\ visited = <<MaxDepth, MaxDepth - 1>>
    /\ ~is_root(LastVisited)
    /\ fr_result = Returned(<<MaxDepth - 1>>)

====
